---- MODULE Spec2Model ----
(***************************************************************************)
(* Knowledge retrieval and adaptive caching engine of the portfolio        *)
(* backend: query classification, hybrid search, fusion ranking and        *)
(* context formatting (backend/app/utils/pinecone_service.py) and the      *)
(* two-tier adaptive cache                                                 *)
(* (backend/app/services/enhanced_performance_service.py).                 *)
(*                                                                         *)
(* Conventions.                                                            *)
(*  - A Python str is a sequence of one-character strings; a character     *)
(*    outside ASCII is written "U+XXXX".                                   *)
(*  - A float score is an integer number of thousandths (0.75 is 750).     *)
(*  - time.time() is the integer variable now, in seconds.                 *)
(*  - The result of a call that may raise is a record                      *)
(*    [raised |-> BOOLEAN, val |-> ...].                                   *)
(*  - cache_manager.get and cache_manager.set are called by the cache and  *)
(*    are not defined by CacheManager (backend/app/utils/cache_manager.py): *)
(*    the shared tier is a TTL key-value store whose call answers or       *)
(*    raises.                                                              *)
(***************************************************************************)
EXTENDS Integers, Sequences, FiniteSets, TLC

(***************************************************************************)
(* Python string primitives                                                *)
(***************************************************************************)
UpperChars ==
    <<"A","B","C","D","E","F","G","H","I","J","K","L","M",
      "N","O","P","Q","R","S","T","U","V","W","X","Y","Z">>

LowerChars ==
    <<"a","b","c","d","e","f","g","h","i","j","k","l","m",
      "n","o","p","q","r","s","t","u","v","w","x","y","z">>

DigitChars == <<"0","1","2","3","4","5","6","7","8","9">>

\* the function f on 1..n as an explicit tuple
AsSeq(f, n) == SubSeq(f, 1, n)

\* str.lower()
lower(s) ==
    AsSeq([i \in 1..Len(s) |->
              IF \E u \in 1..26 : UpperChars[u] = s[i]
              THEN LowerChars[CHOOSE u \in 1..26 : UpperChars[u] = s[i]]
              ELSE s[i]],
          Len(s))

\* Python `sub in s` for strings
Contains(sub, s) ==
    \E i \in 0..(Len(s) - Len(sub)) : SubSeq(s, i + 1, i + Len(sub)) = sub

\* Python s[:n]
Take(s, n) == SubSeq(s, 1, IF Len(s) < n THEN Len(s) ELSE n)

\* the regular expression class \w
IsWordChar(c) ==
    \/ \E i \in 1..26 : UpperChars[i] = c \/ LowerChars[i] = c
    \/ \E i \in 1..10 : DigitChars[i] = c
    \/ c = "_"

\* re.findall(r'\b\w+\b', s): the maximal runs of word characters, in order
RECURSIVE FindWords(_, _, _, _)
FindWords(s, i, cur, acc) ==
    IF i > Len(s)
    THEN IF cur = <<>> THEN acc ELSE Append(acc, cur)
    ELSE IF IsWordChar(s[i])
         THEN FindWords(s, i + 1, Append(cur, s[i]), acc)
         ELSE FindWords(s, i + 1, <<>>, IF cur = <<>> THEN acc ELSE Append(acc, cur))

\* the elements of a sequence
Range(s) == {s[i] : i \in 1..Len(s)}

\* a string of n copies of the character c
Rep(c, n) == AsSeq([i \in 1..n |-> c], n)

\* "sep".join(parts)
RECURSIVE Join(_, _)
Join(parts, sep) ==
    IF parts = <<>> THEN <<>>
    ELSE IF Len(parts) = 1 THEN parts[1]
    ELSE parts[1] \o sep \o Join(Tail(parts), sep)

\* decimal digits of a natural number
RECURSIVE NatDigits(_)
NatDigits(n) ==
    IF n < 10 THEN <<DigitChars[n + 1]>>
    ELSE NatDigits(n \div 10) \o <<DigitChars[(n % 10) + 1]>>

\* f"{score:.3f}" of a score held in thousandths
FormatScore3(m) ==
    LET a == IF m < 0 THEN 0 - m ELSE m
        f == a % 1000
    IN  (IF m < 0 THEN <<"-">> ELSE <<>>)
        \o NatDigits(a \div 1000) \o <<".">>
        \o <<DigitChars[(f \div 100) + 1], DigitChars[((f \div 10) % 10) + 1],
             DigitChars[(f % 10) + 1]>>

(***************************************************************************)
(* Keyword tables (pinecone_service.py) and the fallback biography         *)
(* (knowledge_service.py)                                                  *)
(***************************************************************************)
project_keywords ==
    << <<"p","r","o","j","e","c","t">>, <<"c","o","d","e">>, <<"g","i","t","h","u","b">>,
       <<"r","e","p","o","s","i","t","o","r","y">>, <<"a","p","p","l","i","c","a","t","i","o","n">>,
       <<"a","p","p">>, <<"b","u","i","l","d">>, <<"d","e","v","e","l","o","p">>,
       <<"n","u","t","r","i","v","i","z","e">>, <<"q","u","i","z","i","u","m">>,
       <<"e","c","h","o","p","o","d","c","a","s","t">>, <<"a","i">>, <<"f","a","s","t","a","p","i">>,
       <<"r","e","a","c","t">>, <<"p","y","t","h","o","n">>,
       <<"j","a","v","a","s","c","r","i","p","t">>, <<"t","e","c","h","n","o","l","o","g","y">>,
       <<"s","t","a","c","k">>, <<"f","r","a","m","e","w","o","r","k">>, <<"a","p","i">>,
       <<"d","a","t","a","b","a","s","e">>, <<"f","e","a","t","u","r","e">>,
       <<"i","m","p","l","e","m","e","n","t","a","t","i","o","n">> >>

professional_keywords ==
    << <<"r","e","s","u","m","e">>, <<"c","v">>, <<"e","x","p","e","r","i","e","n","c","e">>,
       <<"w","o","r","k">>, <<"j","o","b">>, <<"c","a","r","e","e","r">>, <<"s","k","i","l","l">>,
       <<"e","d","u","c","a","t","i","o","n">>, <<"u","n","i","v","e","r","s","i","t","y">>,
       <<"d","e","g","r","e","e">>, <<"q","u","a","l","i","f","i","c","a","t","i","o","n">>,
       <<"e","m","p","l","o","y","m","e","n","t">>, <<"p","r","o","f","e","s","s","i","o","n","a","l">>,
       <<"b","a","c","k","g","r","o","u","n","d">>, <<"e","x","p","e","r","t","i","s","e">> >>

personal_keywords ==
    << <<"a","b","o","u","t">>, <<"p","e","r","s","o","n","a","l">>, <<"h","o","b","b","y">>,
       <<"i","n","t","e","r","e","s","t">>, <<"c","o","n","t","a","c","t">>, <<"e","m","a","i","l">>,
       <<"p","h","o","n","e">>, <<"l","o","c","a","t","i","o","n">>,
       <<"p","e","r","s","o","n","a","l","i","t","y">>, <<"b","a","c","k","g","r","o","u","n","d">>,
       <<"s","t","o","r","y">>, <<"l","i","f","e">>, <<"p","a","s","s","i","o","n">>,
       <<"g","o","a","l">>, <<"a","s","p","i","r","a","t","i","o","n">> >>

stop_words ==
    << <<"w","h","a","t">>, <<"h","o","w">>, <<"w","h","e","n">>, <<"w","h","e","r","e">>,
       <<"w","h","y">>, <<"w","h","o">>, <<"i","s">>, <<"a","r","e">>, <<"w","a","s">>,
       <<"w","e","r","e">>, <<"t","h","e">>, <<"a">>, <<"a","n">>, <<"a","n","d">>, <<"o","r">>,
       <<"b","u","t">>, <<"i","n">>, <<"o","n">>, <<"a","t">>, <<"t","o">>, <<"f","o","r">>,
       <<"o","f">>, <<"w","i","t","h">>, <<"b","y">>, <<"c","a","n">>, <<"c","o","u","l","d">>,
       <<"d","o","e","s">>, <<"d","o">>, <<"t","e","l","l">>, <<"m","e">>, <<"a","b","o","u","t">> >>

get_fallback_knowledge ==
    <<"\n"," "," "," "," "," "," "," "," ","I","s","a","a","c"," ","M","i","n","e","o"," ","-"," ",
    "F","u","l","l","-","S","t","a","c","k"," ","D","e","v","e","l","o","p","e","r"," ","&"," ","A",
    "I"," ","E","n","g","i","n","e","e","r","\n"," "," "," "," "," "," "," "," ","\n"," "," "," ",
    " "," "," "," "," ","T","E","C","H","N","I","C","A","L"," ","E","X","P","E","R","T","I","S","E",
    ":","\n"," "," "," "," "," "," "," "," ","U+2022"," ","F","r","o","n","t","e","n","d",":"," ",
    "R","e","a","c","t"," ","1","8",","," ","J","a","v","a","S","c","r","i","p","t","/","T","y","p",
    "e","S","c","r","i","p","t",","," ","T","a","i","l","w","i","n","d"," ","C","S","S",","," ","V",
    "i","t","e","\n"," "," "," "," "," "," "," "," ","U+2022"," ","B","a","c","k","e","n","d",":",
    " ","F","a","s","t","A","P","I",","," ","P","y","t","h","o","n",","," ","N","o","d","e",".","j",
    "s",","," ","R","E","S","T","f","u","l"," ","A","P","I","s","\n"," "," "," "," "," "," "," "," ",
    "U+2022"," ","A","I","/","M","L",":"," ","O","p","e","n","A","I"," ","A","P","I","s"," ","(","G",
    "P","T","-","4",","," ","E","m","b","e","d","d","i","n","g","s",")",","," ","C","l","a","u","d",
    "e"," ","A","P","I",","," ","P","i","n","e","c","o","n","e"," ","v","e","c","t","o","r"," ","s",
    "e","a","r","c","h","\n"," "," "," "," "," "," "," "," ","U+2022"," ","D","a","t","a","b","a",
    "s","e","s",":"," ","M","o","n","g","o","D","B",","," ","R","e","d","i","s",","," ","P","o","s",
    "t","g","r","e","S","Q","L",","," ","F","i","r","e","b","a","s","e","\n"," "," "," "," "," "," ",
    " "," ","U+2022"," ","C","l","o","u","d",":"," ","V","e","r","c","e","l",","," ","R","e","n","d",
    "e","r",","," ","A","W","S",","," ","D","o","c","k","e","r"," ","d","e","p","l","o","y","m","e",
    "n","t","\n"," "," "," "," "," "," "," "," ","\n"," "," "," "," "," "," "," "," ","F","E","A",
    "T","U","R","E","D"," ","P","R","O","J","E","C","T"," ","-"," ","N","U","T","R","I","V","I","Z",
    "E",":","\n"," "," "," "," "," "," "," "," ","A","I","-","p","o","w","e","r","e","d"," ","n","u",
    "t","r","i","t","i","o","n"," ","t","r","a","c","k","i","n","g"," ","a","p","p","l","i","c","a",
    "t","i","o","n",":","\n"," "," "," "," "," "," "," "," ","U+2022"," ","F","r","o","n","t","e",
    "n","d",":"," ","R","e","a","c","t"," ","P","W","A"," ","w","i","t","h"," ","o","f","f","l","i",
    "n","e"," ","c","a","p","a","b","i","l","i","t","i","e","s","\n"," "," "," "," "," "," "," "," ",
    "U+2022"," ","B","a","c","k","e","n","d",":"," ","F","a","s","t","A","P","I"," ","w","i","t","h",
    " ","M","o","n","g","o","D","B"," ","a","n","d"," ","R","e","d","i","s","\n"," "," "," "," "," ",
    " "," "," ","U+2022"," ","A","I",":"," ","O","p","e","n","A","I"," ","G","P","T","-","4"," ","V",
    "i","s","i","o","n"," ","f","o","r"," ","f","o","o","d"," ","r","e","c","o","g","n","i","t","i",
    "o","n","\n"," "," "," "," "," "," "," "," ","U+2022"," ","L","i","v","e"," ","a","t",":"," ",
    "h","t","t","p","s",":","/","/","n","u","t","r","i","v","i","z","e",".","v","e","r","c","e","l",
    ".","a","p","p","\n"," "," "," "," "," "," "," "," ","\n"," "," "," "," "," "," "," "," ","P",
    "R","O","F","E","S","S","I","O","N","A","L"," ","F","O","C","U","S",":","\n"," "," "," "," "," ",
    " "," "," ","U+2022"," ","B","u","i","l","d","i","n","g"," ","i","n","t","e","l","l","i","g","e",
    "n","t",","," ","s","c","a","l","a","b","l","e"," ","w","e","b"," ","a","p","p","l","i","c","a",
    "t","i","o","n","s","\n"," "," "," "," "," "," "," "," ","U+2022"," ","A","I"," ","i","n","t",
    "e","g","r","a","t","i","o","n"," ","a","n","d"," ","a","u","t","o","m","a","t","i","o","n","\n",
    " "," "," "," "," "," "," "," ","U+2022"," ","C","l","e","a","n",","," ","m","a","i","n","t","a",
    "i","n","a","b","l","e"," ","c","o","d","e"," ","w","i","t","h"," ","p","e","r","f","o","r","m",
    "a","n","c","e"," ","o","p","t","i","m","i","z","a","t","i","o","n","\n"," "," "," "," "," "," ",
    " "," ","U+2022"," ","F","u","l","l","-","s","t","a","c","k"," ","d","e","v","e","l","o","p","m",
    "e","n","t"," ","w","i","t","h"," ","m","o","d","e","r","n"," ","t","e","c","h","n","o","l","o",
    "g","i","e","s","\n"," "," "," "," "," "," "," "," ","\n"," "," "," "," "," "," "," "," ","C",
    "A","R","E","E","R"," ","G","O","A","L","S",":","\n"," "," "," "," "," "," "," "," ","S","e","e",
    "k","i","n","g"," ","b","a","c","k","e","n","d",","," ","A","I"," ","e","n","g","i","n","e","e",
    "r","i","n","g",","," ","o","r"," ","f","u","l","l","-","s","t","a","c","k"," ","r","o","l","e",
    "s"," ","i","n",":","\n"," "," "," "," "," "," "," "," ","U+2022"," ","H","e","a","l","t","h",
    "T","e","c","h"," ","a","n","d"," ","w","e","l","l","n","e","s","s"," ","a","p","p","l","i","c",
    "a","t","i","o","n","s","\n"," "," "," "," "," "," "," "," ","U+2022"," ","A","I","-","p","o",
    "w","e","r","e","d"," ","p","r","o","d","u","c","t","i","v","i","t","y"," ","t","o","o","l","s",
    " "," ","\n"," "," "," "," "," "," "," "," ","U+2022"," ","D","e","v","e","l","o","p","e","r",
    " ","t","o","o","l","i","n","g"," ","a","n","d"," ","i","n","f","r","a","s","t","r","u","c","t",
    "u","r","e","\n"," "," "," "," "," "," "," "," ","U+2022"," ","I","n","n","o","v","a","t","i",
    "v","e"," ","s","t","a","r","t","u","p","s"," ","w","i","t","h"," ","r","e","a","l","-","w","o",
    "r","l","d"," ","i","m","p","a","c","t","\n"," "," "," "," "," "," "," "," ","\n"," "," "," ",
    " "," "," "," "," ","C","O","N","T","A","C","T",":","\n"," "," "," "," "," "," "," "," ",
    "U+2022"," ","E","m","a","i","l",":"," ","I","s","a","a","c","M","i","n","e","o","@","g","m","a",
    "i","l",".","c","o","m","\n"," "," "," "," "," "," "," "," ","U+2022"," ","G","i","t","H","u",
    "b",":"," ","h","t","t","p","s",":","/","/","g","i","t","h","u","b",".","c","o","m","/","G","o",
    "l","d","e","n","R","o","d","g","e","r","5","\n"," "," "," "," "," "," "," "," ","U+2022"," ",
    "L","i","n","k","e","d","I","n",":"," ","h","t","t","p","s",":","/","/","l","i","n","k","e","d",
    "i","n",".","c","o","m","/","i","n","/","i","s","a","a","c","m","i","n","e","o","\n"," "," "," ",
    " "," "," "," "," ","U+2022"," ","P","o","r","t","f","o","l","i","o",":"," ","h","t","t","p","s",
    ":","/","/","i","s","a","a","c","m","i","n","e","o",".","c","o","m","\n"," "," "," "," "," "," ",
    " "," ">>

(***************************************************************************)
(* Partitions (IndexType) and the query classifier                         *)
(***************************************************************************)
PROJECTS == "isaac-projects"

PROFESSIONAL == "isaac-professional"

PERSONAL == "isaac-personal"

\* list(IndexType), in declaration order
IndexTypes == <<PROJECTS, PROFESSIONAL, PERSONAL>>

\* sum(1 for keyword in keywords if keyword in query_lower)
KeywordScore(keywords, query_lower) ==
    Cardinality({i \in 1..Len(keywords) : Contains(keywords[i], query_lower)})

\* variant: an if/elif chain, the first partition with a keyword alone
classify_query_first(query) ==
    LET query_lower == lower(query)
    IN  IF KeywordScore(project_keywords, query_lower) > 0 THEN <<PROJECTS>>
        ELSE IF KeywordScore(professional_keywords, query_lower) > 0 THEN <<PROFESSIONAL>>
        ELSE IF KeywordScore(personal_keywords, query_lower) > 0 THEN <<PERSONAL>>
        ELSE IndexTypes

classify_query(query) ==
    LET query_lower == lower(query)
        project_score == KeywordScore(project_keywords, query_lower)
        professional_score == KeywordScore(professional_keywords, query_lower)
        personal_score == KeywordScore(personal_keywords, query_lower)
        indexes_to_search ==
            (IF project_score > 0 THEN <<PROJECTS>> ELSE <<>>)
            \o (IF professional_score > 0 THEN <<PROFESSIONAL>> ELSE <<>>)
            \o (IF personal_score > 0 THEN <<PERSONAL>> ELSE <<>>)
    IN  IF indexes_to_search = <<>> THEN IndexTypes ELSE indexes_to_search

IsKeyword(word) == word \notin Range(stop_words) /\ Len(word) > 2

\* the keywords without the limit of five
extract_keywords_all(query) ==
    SelectSeq(FindWords(lower(query), 1, <<>>, <<>>), IsKeyword)

extract_keywords(query) ==
    LET words == FindWords(lower(query), 1, <<>>, <<>>)
    IN  Take(SelectSeq(words, IsKeyword), 5)

(***************************************************************************)
(* Embedding Provider and Vector Store                                     *)
(*                                                                         *)
(* A Vector Store match is [score, metadata]; metadata is a function from  *)
(* the field names it has ("text", "source") to strings.  vstore[p] is the *)
(* match list partition p answers with, best first.                        *)
(***************************************************************************)
VARIABLES vstore

Raise == [raised |-> TRUE, val |-> <<>>]

Return(v) == [raised |-> FALSE, val |-> v]

\* create_embedding: the provider's error is re-raised
create_embedding(text, ok) ==
    IF ok THEN Return("embedding") ELSE Raise

\* index.query(vector=..., top_k=top_k, include_metadata=True).matches
index_query(index_type, top_k, ok) ==
    IF ok THEN Return(Take(vstore[index_type], top_k)) ELSE Raise

\* match.metadata.get(field, '')
MetaGet(metadata, field) ==
    IF field \in DOMAIN metadata THEN metadata[field] ELSE <<>>

(***************************************************************************)
(* semantic_search                                                         *)
(***************************************************************************)
\* variant: >= in place of >
AtOrAboveFloor(score) == score >= 750

\* the quality floor: match.score > 0.75
AboveFloor(score) == score > 750

SemanticHit(match, index_type) ==
    [content |-> MetaGet(match.metadata, "text"),
     source |-> MetaGet(match.metadata, "source"),
     score |-> match.score,
     index_type |-> index_type,
     metadata |-> match.metadata]

RECURSIVE SemanticHits(_, _)
SemanticHits(matches, index_type) ==
    IF matches = <<>> THEN <<>>
    ELSE (IF AboveFloor(Head(matches).score)
          THEN <<SemanticHit(Head(matches), index_type)>> ELSE <<>>)
         \o SemanticHits(Tail(matches), index_type)

\* the body of the try block; outcome is what the collaborators do:
\* "ok", "embed_error" or "store_error"
semantic_search_try(query, index_type, top_k, outcome) ==
    LET query_embedding == create_embedding(query, outcome # "embed_error")
        search_results == index_query(index_type, top_k, outcome # "store_error")
    IN  IF query_embedding.raised THEN Raise
        ELSE IF search_results.raised THEN Raise
        ELSE Return(SemanticHits(search_results.val, index_type))

\* semantic_search without its exception handler
semantic_search_nocatch(query, index_type, top_k, outcome) ==
    semantic_search_try(query, index_type, top_k, outcome)

\* except Exception: return []
semantic_search(query, index_type, top_k, outcome) ==
    LET r == semantic_search_try(query, index_type, top_k, outcome)
    IN  IF r.raised THEN Return(<<>>) ELSE r

(***************************************************************************)
(* keyword_search                                                          *)
(***************************************************************************)
\* a key built from the whole content instead of its first n characters
DedupKeyFull(result, n) == result.source \o <<"_">> \o result.content

\* f"{result['source']}_{result['content'][:n]}"
DedupKey(result, n) == result.source \o <<"_">> \o Take(result.content, n)

\* The duplicate-removal loop over a dict: unique is the list of the dict's
\* values in key insertion order, each held as an index into results.
RECURSIVE Dedup(_, _, _, _)
Dedup(results, n, i, unique) ==
    IF i > Len(results) THEN unique
    ELSE LET key == DedupKey(results[i], n)
             pos == {p \in 1..Len(unique) : DedupKey(results[unique[p]], n) = key}
         IN  IF pos = {}
             THEN Dedup(results, n, i + 1, Append(unique, i))
             ELSE LET p == CHOOSE q \in pos : TRUE
                  IN  IF results[i].score > results[unique[p]].score
                      THEN Dedup(results, n, i + 1, [unique EXCEPT ![p] = i])
                      ELSE Dedup(results, n, i + 1, unique)

\* sorted(xs, key=lambda x: x['score'], reverse=True): stable, descending
\* an insertion that places a result before the results of equal score
RECURSIVE InsertDescUnstable(_, _)
InsertDescUnstable(sorted, x) ==
    IF sorted = <<>> THEN <<x>>
    ELSE IF Head(sorted).score > x.score
         THEN <<Head(sorted)>> \o InsertDescUnstable(Tail(sorted), x)
         ELSE <<x>> \o sorted

RECURSIVE InsertDesc(_, _)
InsertDesc(sorted, x) ==
    IF sorted = <<>> THEN <<x>>
    ELSE IF Head(sorted).score >= x.score
         THEN <<Head(sorted)>> \o InsertDesc(Tail(sorted), x)
         ELSE <<x>> \o sorted

RECURSIVE SortDesc(_)
SortDesc(xs) ==
    IF xs = <<>> THEN <<>>
    ELSE InsertDesc(SortDesc(SubSeq(xs, 1, Len(xs) - 1)), xs[Len(xs)])

KeywordHit(match, index_type, keyword) ==
    [content |-> MetaGet(match.metadata, "text"),
     source |-> MetaGet(match.metadata, "source"),
     score |-> match.score + 100,
     index_type |-> index_type,
     metadata |-> match.metadata,
     keyword_match |-> keyword]

RECURSIVE KeywordHits(_, _, _)
KeywordHits(matches, index_type, keyword) ==
    IF matches = <<>> THEN <<>>
    ELSE (IF Contains(lower(keyword), lower(MetaGet(Head(matches).metadata, "text")))
          THEN <<KeywordHit(Head(matches), index_type, keyword)>> ELSE <<>>)
         \o KeywordHits(Tail(matches), index_type, keyword)

\* The loop over the keywords, from keyword j on.  fail_at = 0: no call
\* fails; otherwise the calls for keyword number fail_at fail, in
\* create_embedding (fail_kind = "embed_error") or in index.query.
RECURSIVE KeywordLoop(_, _, _, _, _, _, _)
KeywordLoop(keywords, j, index_type, top_k, fail_at, fail_kind, results) ==
    IF j > Len(keywords) THEN Return(results)
    ELSE LET keyword_embedding ==
                 create_embedding(keywords[j], ~(fail_at = j /\ fail_kind = "embed_error"))
             search_results ==
                 index_query(index_type, top_k, ~(fail_at = j /\ fail_kind = "store_error"))
         IN  IF keyword_embedding.raised THEN Raise
             ELSE IF search_results.raised THEN Raise
             ELSE KeywordLoop(keywords, j + 1, index_type, top_k, fail_at, fail_kind,
                      results \o KeywordHits(search_results.val, index_type, keywords[j]))

keyword_search_try(query, index_type, top_k, fail_at, fail_kind) ==
    LET keywords == extract_keywords(query)
        looped == KeywordLoop(keywords, 1, index_type, top_k, fail_at, fail_kind, <<>>)
    IN  IF looped.raised THEN Raise
        ELSE LET results == looped.val
                 unique == Dedup(results, 50, 1, <<>>)
                 unique_results ==
                     AsSeq([p \in 1..Len(unique) |-> results[unique[p]]], Len(unique))
             IN  Return(Take(SortDesc(unique_results), top_k))

\* except Exception: return []
keyword_search(query, index_type, top_k, fail_at, fail_kind) ==
    LET r == keyword_search_try(query, index_type, top_k, fail_at, fail_kind)
    IN  IF r.raised THEN Return(<<>>) ELSE r

(***************************************************************************)
(* fusion_rank                                                             *)
(***************************************************************************)
\* any(word in query.lower() for word in words)
AnyIn(words, query) == \E i \in 1..Len(words) : Contains(words[i], lower(query))

\* a boost that looks at the query and not at the partition of the hit
IntentBoostAnyPartition(result, query) ==
    IF AnyIn(<<<<"p","r","o","j","e","c","t","s">>, <<"r","e","s","u","m","e">>,
               <<"e","x","p","e","r","i","e","n","c","e">>, <<"s","k","i","l","l">>,
               <<"a","b","o","u","t">>, <<"c","o","n","t","a","c","t">>,
               <<"p","e","r","s","o","n","a","l">>>>, query)
    THEN 100
    ELSE 0

\* the if / elif / elif chain on index relevance
IntentBoost(result, query) ==
    IF AnyIn((<<<<"p","r","o","j","e","c","t","s">>>>), query) /\ result.index_type = PROJECTS THEN 100
    ELSE IF AnyIn((<<<<"r","e","s","u","m","e">>, <<"e","x","p","e","r","i","e","n","c","e">>, <<"s","k","i","l","l">>>>), query) /\ result.index_type = PROFESSIONAL THEN 100
    ELSE IF AnyIn((<<<<"a","b","o","u","t">>, <<"c","o","n","t","a","c","t">>, <<"p","e","r","s","o","n","a","l">>>>), query) /\ result.index_type = PERSONAL THEN 100
    ELSE 0

\* the score of one ranked result after the loop of in-place additions
FinalScore(result, query) ==
    result.score + IntentBoost(result, query) + (IF "keyword_match" \in DOMAIN result THEN 50 ELSE 0)
    + (IF Len(result.content) > 500 THEN 20 ELSE 0)

\* indices (into results) of the dict's values after duplicate removal
FusionUnique(results) == Dedup(results, 100, 1, <<>>)

fusion_rank(results, query) ==
    IF results = <<>> THEN <<>>
    ELSE LET unique == FusionUnique(results)
             ranked_results ==
                 AsSeq([p \in 1..Len(unique) |->
                           [results[unique[p]] EXCEPT
                               !.score = FinalScore(results[unique[p]], query)]],
                       Len(unique))
         IN  SortDesc(ranked_results)

(***************************************************************************)
(* format_context_piece and the assembly of the context                    *)
(***************************************************************************)
format_context_piece(result) ==
    <<"[">>
    \o (IF result.index_type = PROJECTS
        THEN <<"P","R","O","J","E","C","T"," ","I","N","F","O">>
        ELSE IF result.index_type = PROFESSIONAL
        THEN <<"P","R","O","F","E","S","S","I","O","N","A","L"," ","I","N","F","O">>
        ELSE IF result.index_type = PERSONAL
        THEN <<"P","E","R","S","O","N","A","L"," ","I","N","F","O">>
        ELSE <<"I","N","F","O">>)
    \o <<"]"," ","F","r","o","m"," ">>
    \o result.source \o <<" ","(","r","e","l","e","v","a","n","c","e",":"," ">>
    \o FormatScore3(result.score) \o <<")",":","\n">> \o result.content

\* the assembly without the fallback branch
BuildContextNoFallback(ranked_results, top_k) ==
    LET top == Take(ranked_results, top_k)
    IN  Join(AsSeq([i \in 1..Len(top) |-> format_context_piece(top[i])], Len(top)),
             <<"\n", "\n">>)

\* variant: the slice is ranked_results[:top_k//2]
BuildContextHalf(ranked_results, top_k) ==
    LET top == Take(ranked_results, top_k \div 2)
        context_parts ==
            AsSeq([i \in 1..Len(top) |-> format_context_piece(top[i])], Len(top))
    IN  IF context_parts # <<>>
        THEN Join(context_parts, <<"\n", "\n">>)
        ELSE get_fallback_knowledge

\* lines 270-280: format ranked_results[:top_k], join, or fall back
BuildContext(ranked_results, top_k) ==
    LET top == Take(ranked_results, top_k)
        context_parts ==
            AsSeq([i \in 1..Len(top) |-> format_context_piece(top[i])], Len(top))
    IN  IF context_parts # <<>>
        THEN Join(context_parts, <<"\n", "\n">>)
        ELSE get_fallback_knowledge

(***************************************************************************)
(* Inputs of the retrieval pipeline: queries, Vector Store matches         *)
(***************************************************************************)
QEmail == <<"W","h","a","t"," ","i","s"," ","I","s","a","a","c","'","s"," ","e","m","a","i","l","?">>

QHi == <<"h","i">>

QProjects == <<"M","y"," ","P","r","o","j","e","c","t","s">>

QSkill == <<"s","k","i","l","l"," ","z","z","z">>

Queries == {QEmail, QHi, QProjects, QSkill, <<"a","b","o","u","t"," ","c","o","n","t","a","c","t">>}

\* queries for keyword_search: the second has seven meaningful words
KeywordQueries ==
    { QSkill,
      <<"s","k","i","l","l"," ","z","z","z"," ","p","r","o","j","e","c","t","s"," ",
        "e","m","a","i","l"," ","c","o","n","t","a","c","t"," ","i","s","a","a","c"," ",
        "r","e","a","c","t">> }

\* hybrid_search(query, top_k): the default 8 and the value 2 its callers use
TopKs == {2, 8}

Match(score, text, source) ==
    [score |-> score, metadata |-> [f \in {"text", "source"} |->
                                       IF f = "text" THEN text ELSE source]]

SrcContact == <<"c","o","n","t","a","c","t","_","i","n","f","o">>

SrcResume == <<"r","e","s","u","m","e">>

TxtSkill == <<"S","k","i","l","l",":"," ","z","z","z"," ","p","r","o","j","e","c","t","s">>

MContact == Match(900, (<<"C","o","n","t","a","c","t",":"," ","i","s","a","a","c","@","e","x","a","m","p","l","e",".", "c","o","m">>), SrcContact)

MFloor == Match(750, TxtSkill, SrcResume)

MAbove == Match(751, TxtSkill, SrcResume)

MLongA == Match(800, (Rep("x", 100) \o <<"s","k","i","l","l"," ","A">>), SrcResume)

MLongB == Match(820, (Rep("x", 100) \o <<"s","k","i","l","l"," ","B">>), SrcResume)

MRich == Match(760, (<<"e","m","a","i","l"," ">> \o Rep("y", 500)), SrcContact)

\* the Vector Store contents the model is run against
Stores ==
    { [p \in Range(IndexTypes) |-> <<>>],
      [p \in Range(IndexTypes) |->
          IF p = PERSONAL THEN <<MContact, MRich>> ELSE <<MFloor>>],
      [p \in Range(IndexTypes) |->
          IF p = PROFESSIONAL THEN <<MLongB, MLongA, MAbove>>
          ELSE IF p = PROJECTS THEN <<MAbove, MFloor>> ELSE <<([score |-> 800, metadata |-> [f \in {"source"} |-> SrcResume]])>>] }

(***************************************************************************)
(* hybrid_search as a task: one step per awaited sub-search                *)
(***************************************************************************)
VARIABLES
    hs_pc,        \* "idle", "semantic", "keyword" or "done"
    hs_query,     \* query
    hs_top_k,     \* top_k
    hs_indexes,   \* relevant_indexes
    hs_i,         \* position of the loop in relevant_indexes
    hs_all,       \* all_results
    hs_out,       \* what the call gave its caller: [raised, val]
    hs_calls,     \* index.query calls issued by this call
    hs_failed,    \* the sub-searches <<i, path>> of this call that failed
    hs_prev       \* the previous completed call: [set, query, top_k, out]

searchVars ==
    <<vstore, hs_pc, hs_query, hs_top_k, hs_indexes, hs_i, hs_all, hs_out,
      hs_calls, hs_failed, hs_prev>>

SearchIdle ==
    /\ hs_pc = "idle"
    /\ hs_query = <<>>
    /\ hs_top_k = 0
    /\ hs_indexes = <<>>
    /\ hs_i = 0
    /\ hs_all = <<>>
    /\ hs_out = Return(<<>>)
    /\ hs_calls = 0
    /\ hs_failed = {}
    /\ hs_prev = ([set |-> FALSE, query |-> <<>>, top_k |-> 0, out |-> Return(<<>>)])

SearchParked ==
    /\ vstore = [p \in Range(IndexTypes) |-> <<>>]
    /\ SearchIdle

HybridExcept == Return(get_fallback_knowledge)

\* lines 251-260 of a call: classify_query, then the first sub-search is awaited
HybridEnter(query, top_k) ==
    /\ hs_pc' = "semantic"
    /\ hs_query' = query
    /\ hs_top_k' = top_k
    /\ hs_indexes' = classify_query(query)
    /\ hs_i' = 1
    /\ hs_all' = <<>>
    /\ hs_out' = Return(<<>>)
    /\ hs_calls' = 0
    /\ hs_failed' = {}
    /\ UNCHANGED vstore

\* hybrid_search is called
HybridStart(query, top_k) ==
    /\ hs_pc = "idle"
    /\ HybridEnter(query, top_k)
    /\ UNCHANGED hs_prev

\* hybrid_search is called again with the query of the call that just returned
HybridAgain ==
    /\ hs_pc = "done"
    /\ HybridEnter(hs_query, hs_top_k)
    /\ hs_prev' = [set |-> TRUE, query |-> hs_query, top_k |-> hs_top_k,
                   out |-> hs_out]

\* await semantic_search(query, index_type, top_k//2); all_results.extend(...)
SemanticStep(outcome) ==
    /\ hs_pc = "semantic"
    /\ LET r == semantic_search(hs_query, hs_indexes[hs_i], hs_top_k \div 2, outcome)
       IN  IF r.raised
           THEN /\ hs_pc' = "done"
                /\ hs_out' = HybridExcept
                /\ UNCHANGED hs_all
           ELSE /\ hs_pc' = "keyword"
                /\ hs_all' = hs_all \o r.val
                /\ UNCHANGED hs_out
    /\ hs_calls' = hs_calls + (IF outcome = "embed_error" THEN 0 ELSE 1)
    /\ hs_failed' = IF outcome = "ok" THEN hs_failed
                    ELSE hs_failed \cup {<<hs_i, "semantic">>}
    /\ UNCHANGED <<vstore, hs_query, hs_top_k, hs_indexes, hs_i, hs_prev>>

\* await keyword_search(query, index_type, top_k//2); all_results.extend(...);
\* after the last index: fusion_rank, format, return
KeywordStep(fail_at, fail_kind) ==
    /\ hs_pc = "keyword"
    /\ fail_at \in 0..Len(extract_keywords(hs_query))
    /\ LET r == keyword_search(hs_query, hs_indexes[hs_i], hs_top_k \div 2,
                               fail_at, fail_kind)
           all_results == hs_all \o r.val
       IN  IF r.raised
           THEN /\ hs_pc' = "done"
                /\ hs_out' = HybridExcept
                /\ UNCHANGED <<hs_all, hs_i>>
           ELSE /\ hs_all' = all_results
                /\ IF hs_i < Len(hs_indexes)
                   THEN /\ hs_pc' = "semantic"
                        /\ hs_i' = hs_i + 1
                        /\ UNCHANGED hs_out
                   ELSE /\ hs_pc' = "done"
                        /\ hs_out' = (Return(BuildContext(fusion_rank(all_results, hs_query), hs_top_k)))
                        /\ UNCHANGED hs_i
    /\ hs_calls' = hs_calls + (IF fail_at = 0 THEN Len(extract_keywords(hs_query)) ELSE IF fail_kind = "embed_error" THEN fail_at - 1 ELSE fail_at)
    /\ hs_failed' = IF fail_at = 0 THEN hs_failed
                    ELSE hs_failed \cup {<<hs_i, "keyword">>}
    /\ UNCHANGED <<vstore, hs_query, hs_top_k, hs_indexes, hs_prev>>

SearchOutcomes == {"ok", "embed_error", "store_error"}

\* <<fail_at, fail_kind>>: no failure, or a failure at one of the (at most 5)
\* keywords
KeywordFailures ==
    {<<0, "none">>} \cup ((1..5) \X {"embed_error", "store_error"})

(***************************************************************************)
(* fusion_rank as an operation on a list of hit records                    *)
(*                                                                         *)
(* The hits are dicts that fusion_rank updates in place (result['score']   *)
(* += ...), so the caller's list is part of the state the call changes.    *)
(***************************************************************************)
VARIABLES
    rk_results,   \* the caller's list of hits
    rk_query,     \* query
    rk_arg,       \* the list as it was when fusion_rank was last called
    rk_ranked,    \* what the last call returned
    rk_calls      \* calls of fusion_rank made on the list

rankVars == <<rk_results, rk_query, rk_arg, rk_ranked, rk_calls>>

\* the last two hits have different (source, content) and equal key strings
HitPool ==
    { SemanticHit(MContact, PERSONAL),
      SemanticHit(MLongA, PROFESSIONAL),
      SemanticHit(MLongB, PROFESSIONAL),
      KeywordHit(MAbove, PROJECTS, <<"p","r","o","j","e","c","t","s">>),
      SemanticHit(MRich, PERSONAL),
      SemanticHit(Match(800, <<"b">>, <<"a", "_">>), PROJECTS),
      SemanticHit(Match(800, <<"_", "b">>, <<"a">>), PROJECTS) }

RankQueries == {QHi, QProjects, QSkill, <<"m","y"," ","p","r","o","j","e","c","t">>}

MaxHits == 3

MaxRankCalls == 2

\* all sequences over S of length at most n
RECURSIVE SeqsUpTo(_, _)
SeqsUpTo(S, n) ==
    IF n = 0 THEN {<<>>}
    ELSE LET shorter == SeqsUpTo(S, n - 1)
         IN  shorter \cup {Append(q, x) : q \in {r \in shorter : Len(r) = n - 1}, x \in S}

RankParked ==
    /\ rk_results = <<>>
    /\ rk_query = <<>>
    /\ rk_arg = <<>>
    /\ rk_ranked = <<>>
    /\ rk_calls = 0

\* ranked = fusion_rank(results, query)
Rank ==
    /\ rk_calls < MaxRankCalls
    /\ rk_arg' = rk_results
    /\ rk_ranked' = fusion_rank(rk_results, rk_query)
    \* the dicts kept by the duplicate removal carry their boosted score
    /\ rk_results' =
           IF rk_results = <<>> THEN rk_results
           ELSE LET unique == FusionUnique(rk_results)
                IN  AsSeq([i \in 1..Len(rk_results) |->
                              IF i \in Range(unique)
                              THEN [rk_results[i] EXCEPT
                                       !.score = FinalScore(rk_results[i], rk_query)]
                              ELSE rk_results[i]],
                          Len(rk_results))
    /\ rk_calls' = rk_calls + 1
    /\ UNCHANGED rk_query

(***************************************************************************)
(* The adaptive cache: EnhancedPerformanceService                          *)
(*                                                                         *)
(* Python values: None, a str that is not JSON text ([str |-> text]), the  *)
(* str json.dumps(v) ([json |-> v]), and any other object ([obj |-> id]).  *)
(* memory_cache is the dict in insertion order, one record                 *)
(* [key, data, timestamp] per item (its hits counter and the metrics are   *)
(* written and never read by a decision: left out); access_patterns is the *)
(* defaultdict(list) as a function on the keys it holds; redis is the      *)
(* shared tier, a function from the keys it holds to [val, exp].           *)
(***************************************************************************)
VARIABLES
    now,              \* time.time()
    memory_cache,     \* self.memory_cache
    access_patterns,  \* self.access_patterns
    redis,            \* the shared tier behind self.cache_manager
    task,             \* the request tasks: position, arguments, locals, result
    last_evicted,     \* memory key of the last item evicted by set_memory_cache
                      \* and not written since ("" when there is none)
    calls             \* number of cache operations entered so far

cacheVars == <<now, memory_cache, access_patterns, redis, task, last_evicted, calls>>

None == [none |-> TRUE]

Text(s) == [str |-> s]

IsStr(v) == "str" \in DOMAIN v \/ "json" \in DOMAIN v

\* self.cache_ttl
cache_ttl ==
    [c \in {"explanation_hot", "explanation_warm", "explanation_cold", "file_content",
            "repo_tree", "github_repos", "search_results", "user_session"} |->
        IF c = "explanation_hot" THEN 3600
        ELSE IF c = "explanation_warm" THEN 7200
        ELSE IF c = "explanation_cold" THEN 14400
        ELSE IF c = "file_content" THEN 3600
        ELSE IF c = "repo_tree" THEN 1800
        ELSE IF c = "github_repos" THEN 3600
        ELSE IF c = "search_results" THEN 1800
        ELSE 7200]

\* self.max_memory_cache_size (200 in the source; scaled down here)
max_memory_cache_size == 2

Max(a, b) == IF a > b THEN a ELSE b

Min(a, b) == IF a < b THEN a ELSE b

\* f"mem:{key}"
MemoryKey(key) == "mem:" \o key

\* f"perf:{category}:{key}"
CacheKey(category, key) == "perf:" \o category \o ":" \o key

(***************************************************************************)
(* The in-process tier                                                     *)
(***************************************************************************)
MemKeys(mc) == {mc[i].key : i \in 1..Len(mc)}

MemIdx(mc, key) == CHOOSE i \in 1..Len(mc) : mc[i].key = key

MemGet(mc, key) == mc[MemIdx(mc, key)]

\* del self.memory_cache[key]
MemDel(mc, key) == SelectSeq(mc, LAMBDA e : e.key # key)

\* variant: max in place of min, the item written last is evicted
NewestKey(mc) ==
    LET i == CHOOSE a \in 1..Len(mc) :
                 /\ \A b \in 1..Len(mc) : mc[a].timestamp >= mc[b].timestamp
                 /\ \A b \in 1..(a - 1) : mc[b].timestamp < mc[a].timestamp
    IN  mc[i].key

\* min(self.memory_cache.keys(), key=lambda k: ...['timestamp']): the first
\* key, in dict order, among those of least timestamp
OldestKey(mc) ==
    LET i == CHOOSE a \in 1..Len(mc) :
                 /\ \A b \in 1..Len(mc) : mc[a].timestamp <= mc[b].timestamp
                 /\ \A b \in 1..(a - 1) : mc[b].timestamp > mc[a].timestamp
    IN  mc[i].key

\* variant: > in place of >=
AtCapacityOver(mc) == Len(mc) > max_memory_cache_size

\* the capacity test of set_memory_cache
AtCapacity(mc) == Len(mc) >= max_memory_cache_size

\* self.memory_cache[key] = {...}: an existing key keeps its place in the dict
MemAssign(mc, key, data) ==
    LET item == [key |-> key, data |-> data, timestamp |-> now]
    IN  IF key \in MemKeys(mc)
        THEN [mc EXCEPT ![MemIdx(mc, key)] = item]
        ELSE Append(mc, item)

\* set_memory_cache(key, data): the dict after the call
set_memory_cache(mc, key, data) ==
    MemAssign(IF AtCapacity(mc) THEN MemDel(mc, OldestKey(mc)) ELSE mc, key, data)

\* last_evicted after set_memory_cache(key, ...) on the dict mc
EvictedAfter(mc, key) ==
    LET e == (IF AtCapacity(mc) THEN OldestKey(mc) ELSE "")
    IN  IF e # "" /\ e # key THEN e
        ELSE IF last_evicted = key THEN "" ELSE last_evicted

(***************************************************************************)
(* Access patterns, adaptive TTL, promotion                                *)
(***************************************************************************)
\* reading self.access_patterns[key] inserts the key with an empty list
Touch(ap, key) == IF key \in DOMAIN ap THEN ap ELSE ap @@ (key :> <<>>)

\* len([t for t in self.access_patterns[key] if time.time() - t < window])
RecentAccesses(ap, key, window) ==
    LET ts == Touch(ap, key)[key]
    IN  Cardinality({i \in 1..Len(ts) : now - ts[i] < window})

\* variant: the medium branch from three accesses on
AdaptiveTTLFromThree(base_ttl, n) ==
    IF n > 10 THEN Max(base_ttl \div 2, 1800)
    ELSE IF n >= 3 THEN base_ttl
    ELSE Min(base_ttl * 2, 28800)

\* the three frequency branches of get_adaptive_ttl
AdaptiveTTL(base_ttl, n) ==
    IF n > 10 THEN Max(base_ttl \div 2, 1800)
    ELSE IF n > 3 THEN base_ttl
    ELSE Min(base_ttl * 2, 28800)

get_adaptive_ttl(ap, key, category) ==
    AdaptiveTTL((IF category \in DOMAIN cache_ttl THEN cache_ttl[category] ELSE cache_ttl["explanation_warm"]), RecentAccesses(ap, key, 3600))

\* variant: one recent access is enough
should_memory_cache_once(ap, key, category) ==
    IF category \in {"explanation_hot", "search_results"} THEN TRUE
    ELSE RecentAccesses(ap, key, 1800) >= 1

should_memory_cache(ap, key, category) ==
    IF category \in {"explanation_hot", "search_results"} THEN TRUE
    ELSE RecentAccesses(ap, key, 1800) >= 2

(***************************************************************************)
(* Inputs and bounds of the cache model                                    *)
(***************************************************************************)
Tasks == {"t1", "t2"}

Keys == {"k1", "k2", "k3"}

\* bound on the number of cache operations of one run
MaxCalls == 4

CacheRaise == [raised |-> TRUE, val |-> None]

NoRequest == [cache_key |-> "", payload |-> None, ttl |-> 0]

IdleTask ==
    [pc |-> "idle", op |-> "", key |-> "", category |-> "", data |-> None,
     req |-> NoRequest, reply |-> Return(None), ret |-> Return(None),
     via |-> "", failed |-> FALSE, n |-> 0]

EmptyMap == [x \in {} |-> <<>>]

CacheParked ==
    /\ now = 0
    /\ memory_cache = <<>>
    /\ access_patterns = EmptyMap
    /\ redis = EmptyMap
    /\ task = [t \in Tasks |-> IdleTask]
    /\ last_evicted = ""
    /\ calls = 0

Callable(t) == task[t].pc \in {"idle", "returned"} /\ calls < MaxCalls

\* the record of a task that enters an operation
Entering(t, op, key, category, data) ==
    [IdleTask EXCEPT !.op = op, !.key = key, !.category = category, !.data = data,
                     !.n = calls + 1]

\* the record of a task whose operation has returned: the number of the call
\* (n), its key and category, its result (ret), the path that produced it
\* (via) and whether its shared-tier call failed remain
Returned(r) ==
    [r EXCEPT !.pc = "returned", !.data = None,
              !.req = NoRequest, !.reply = Return(None)]

\* variant: <= in place of <
FreshInMemoryInclusive(timestamp) == now - timestamp <= 300

\* time.time() - hit_time < max_age, max_age = 300
FreshInMemory(timestamp) == now - timestamp < 300

\* variant: the handler of smart_cache_get re-raises
SmartGetReraise == CacheRaise

\* the handlers `except Exception` of smart_cache_get and smart_cache_set
SmartGetExcept == Return(None)

(***************************************************************************)
(* smart_cache_get                                                         *)
(***************************************************************************)
\* lines 70-93: the memory layer, then the request to the shared tier
GetCall(t, key, category) ==
    /\ Callable(t)
    /\ LET memory_key == MemoryKey(key)
           entering == Entering(t, "get", key, category, None)
           to_shared == [entering EXCEPT
                            !.pc = "get_sent",
                            !.req = [NoRequest EXCEPT !.cache_key = CacheKey(category, key)]]
       IN  IF memory_key \in MemKeys(memory_cache)
           THEN LET item == MemGet(memory_cache, memory_key)
                IN  IF FreshInMemory(item.timestamp)
                    THEN /\ access_patterns' = ([Touch(access_patterns, key) EXCEPT ![key] = Append(Touch(access_patterns, key)[key], now)])
                         /\ task' = [task EXCEPT ![t] =
                                        [Returned(entering) EXCEPT
                                            !.ret = Return(item.data),
                                            !.via = "fast"]]
                         /\ UNCHANGED memory_cache
                    ELSE /\ memory_cache' = MemDel(memory_cache, memory_key)
                         /\ task' = [task EXCEPT ![t] = [to_shared EXCEPT !.via = "expired"]]
                         /\ UNCHANGED access_patterns
           ELSE /\ task' = [task EXCEPT ![t] = [to_shared EXCEPT !.via = "absent"]]
                /\ UNCHANGED <<memory_cache, access_patterns>>
    /\ calls' = calls + 1
    /\ UNCHANGED <<now, redis, last_evicted>>

\* await self.cache_manager.get(cache_key): the shared tier answers or fails
SharedGet(t, ok) ==
    /\ task[t].pc = "get_sent"
    /\ task' = [task EXCEPT
                   ![t].pc = "get_replied",
                   ![t].reply = IF ok THEN Return((IF task[t].req.cache_key \in DOMAIN redis THEN redis[task[t].req.cache_key].val ELSE None))
                                ELSE CacheRaise,
                   ![t].failed = ~ok]
    /\ UNCHANGED <<now, memory_cache, access_patterns, redis, last_evicted, calls>>

\* lines 95-111
GetResume(t) ==
    /\ task[t].pc = "get_replied"
    /\ LET cached_result == task[t].reply.val
           memory_key == MemoryKey(task[t].key)
           decoded == (IF "json" \in DOMAIN cached_result THEN Return(cached_result.json) ELSE Raise)
           done == Returned(task[t])
       IN  IF task[t].reply.raised
           THEN /\ task' = [task EXCEPT ![t] =
                               [done EXCEPT !.ret = SmartGetExcept, !.via = "error"]]
                /\ UNCHANGED <<memory_cache, last_evicted>>
           ELSE IF (cached_result # None /\ cached_result # Text(""))
           THEN /\ memory_cache' = set_memory_cache(memory_cache, memory_key, cached_result)
                /\ last_evicted' = EvictedAfter(memory_cache, memory_key)
                /\ task' = [task EXCEPT ![t] =
                               IF IsStr(cached_result) /\ decoded.raised
                               THEN [done EXCEPT !.ret = SmartGetExcept,
                                                 !.via = "decode_error"]
                               ELSE [done EXCEPT
                                        !.ret = IF IsStr(cached_result)
                                                THEN Return(decoded.val)
                                                ELSE Return(cached_result),
                                        !.via = "shared"]]
           ELSE /\ task' = [task EXCEPT ![t] =
                               [done EXCEPT !.ret = Return(None), !.via = "miss"]]
                /\ UNCHANGED <<memory_cache, last_evicted>>
    /\ UNCHANGED <<now, access_patterns, redis, calls>>

(***************************************************************************)
(* smart_cache_set                                                         *)
(***************************************************************************)
\* lines 115-128: the TTL, the payload, then the request to the shared tier
SetCall(t, key, data, category, custom_ttl) ==
    /\ Callable(t)
    /\ LET ttl == IF custom_ttl # 0 THEN custom_ttl
                  ELSE get_adaptive_ttl(access_patterns, key, category)
           cache_data == [data |-> data, timestamp |-> now, category |-> category,
                          access_count |-> 1]
           payload == IF ~IsStr(data) THEN ([json |-> cache_data]) ELSE data
       IN  /\ access_patterns' = IF custom_ttl # 0 THEN access_patterns
                                 ELSE Touch(access_patterns, key)
           /\ task' = [task EXCEPT ![t] =
                          [Entering(t, "set", key, category, data) EXCEPT
                              !.pc = "set_sent",
                              !.req = [cache_key |-> CacheKey(category, key),
                                       payload |-> payload, ttl |-> ttl]]]
    /\ calls' = calls + 1
    /\ UNCHANGED <<now, memory_cache, redis, last_evicted>>

\* await self.cache_manager.set(cache_key, payload, expire=ttl): the shared
\* tier stores the payload or fails
SharedSet(t, ok) ==
    /\ task[t].pc = "set_sent"
    /\ redis' = IF ok
                THEN [k \in DOMAIN redis \cup {task[t].req.cache_key} |->
                         IF k = task[t].req.cache_key
                         THEN [val |-> task[t].req.payload, exp |-> now + task[t].req.ttl]
                         ELSE redis[k]]
                ELSE redis
    /\ task' = [task EXCEPT
                   ![t].pc = "set_replied",
                   ![t].reply = IF ok THEN Return(None) ELSE CacheRaise,
                   ![t].failed = ~ok]
    /\ UNCHANGED <<now, memory_cache, access_patterns, last_evicted, calls>>

\* lines 134-140
SetResume(t) ==
    /\ task[t].pc = "set_replied"
    /\ LET key == task[t].key
           category == task[t].category
           memory_key == MemoryKey(key)
           done == Returned(task[t])
       IN  IF task[t].reply.raised
           THEN /\ task' = [task EXCEPT ![t] =
                               [done EXCEPT !.ret = (Return(None)), !.via = "error"]]
                /\ UNCHANGED <<memory_cache, access_patterns, last_evicted>>
           ELSE /\ access_patterns' = (IF category \in {"explanation_hot", "search_results"} THEN access_patterns ELSE Touch(access_patterns, key))
                /\ IF should_memory_cache(access_patterns, key, category)
                   THEN /\ memory_cache' =
                               set_memory_cache(memory_cache, memory_key, task[t].data)
                        /\ last_evicted' = EvictedAfter(memory_cache, memory_key)
                        /\ task' = [task EXCEPT ![t] =
                                       [done EXCEPT !.ret = Return(None), !.via = "stored_both"]]
                   ELSE /\ task' = [task EXCEPT ![t] =
                                       [done EXCEPT !.ret = Return(None), !.via = "stored_shared"]]
                        /\ UNCHANGED <<memory_cache, last_evicted>>
    /\ UNCHANGED <<now, redis, calls>>

(***************************************************************************)
(* cleanup_old_performance_data and the clock                              *)
(***************************************************************************)
\* [t for t in history if current_time - t < 86400]
KeptHistory(history) == SelectSeq(history, LAMBDA ts : now - ts < 86400)

\* variant: the cleanup deletes the items older than an hour
CleanupExpiredHour(item) == now - item.timestamp > 3600

\* the memory items the cleanup deletes: current_time - timestamp > 1800
CleanupExpired(item) == now - item.timestamp > 1800

\* self.access_patterns after the first loop of the cleanup
CleanedPatterns(ap) ==
    [k \in {q \in DOMAIN ap : KeptHistory(ap[q]) # <<>>} |-> KeptHistory(ap[k])]

\* self.memory_cache after the deletion of expired_keys
CleanedMemory(mc) == SelectSeq(mc, LAMBDA item : ~CleanupExpired(item))

cleanup_old_performance_data ==
    /\ access_patterns' = CleanedPatterns(access_patterns)
    /\ memory_cache' = CleanedMemory(memory_cache)
    /\ UNCHANGED <<now, redis, task, last_evicted, calls>>

\* time passes; the shared tier drops the keys whose TTL has elapsed
Tick(tp) ==
    /\ tp > now
    /\ now' = tp
    /\ redis' = [k \in {q \in DOMAIN redis : tp < redis[q].exp} |-> redis[k]]
    /\ UNCHANGED <<memory_cache, access_patterns, task, last_evicted, calls>>

(***************************************************************************)
(* AuthService rate limiting (auth_service.py).  The counters live in the  *)
(* shared cache behind cache_manager.get / cache_manager.set, a call that  *)
(* answers or raises.                                                      *)
(***************************************************************************)
VARIABLES au_store,       \* shared cache: rate_key -> str(count)
          au_pc,          \* "idle", "get", "set", "returned"
          au_op,          \* "check_rate_limit" or "get_rate_limit_info"
          au_identifier, au_action,
          au_key,         \* rate_key of the running call
          au_count,       \* current_count of the running call
          au_fresh,       \* no counter was stored under rate_key at the call
          au_ret,         \* what the last call returned
          au_calls        \* calls made so far

authVars == <<au_store, au_pc, au_op, au_identifier, au_action, au_key,
              au_count, au_fresh, au_ret, au_calls>>

rate_limits ==
    [explanation_requests |-> [limit |-> 50,  window |-> 3600],
     auth_attempts        |-> [limit |-> 5,   window |-> 900],
     api_requests         |-> [limit |-> 200, window |-> 3600]]

\* float('inf')
Inf == [inf |-> TRUE]

rate_key(action, identifier, ip_address) ==
    LET base == "rate_limit:" \o action \o ":" \o identifier
    IN  IF ip_address # "" THEN base \o ":" \o ip_address ELSE base

IsDigits(s) == s # <<>> /\ \A i \in 1..Len(s) : \E d \in 1..10 : DigitChars[d] = s[i]

\* int(s) of a string of decimal digits
RECURSIVE IntOf(_)
IntOf(s) ==
    IF s = <<>> THEN 0
    ELSE IntOf(SubSeq(s, 1, Len(s) - 1)) * 10
         + ((CHOOSE d \in 1..10 : DigitChars[d] = s[Len(s)]) - 1)

\* cache_manager.get(rate_key) answered: the stored string, or nothing
Stored(key) == IF key \in DOMAIN au_store THEN au_store[key] ELSE <<>>

\* the callers: one that passes no ip_address, one that passes its client ip
Callers == {[identifier |-> "u1", ip_address |-> ""],
            [identifier |-> "u2", ip_address |-> "ip"]}
Actions == DOMAIN rate_limits \cup {"unlisted"}
MaxAuthCalls == 6

NoAuthReturn == [pending |-> TRUE]
Bool(b) == [value |-> b]

AuthParked ==
    /\ au_store = << >>
    /\ au_pc = "idle"
    /\ au_op = ""
    /\ au_identifier = ""
    /\ au_action = ""
    /\ au_key = ""
    /\ au_count = 0
    /\ au_fresh = FALSE
    /\ au_ret = NoAuthReturn
    /\ au_calls = 0

AuthEnter(op, identifier, action, ip_address) ==
    /\ (au_pc \in {"idle", "returned"} /\ au_calls < MaxAuthCalls)
    /\ au_calls' = au_calls + 1
    /\ au_op' = op
    /\ au_identifier' = identifier
    /\ au_action' = action
    /\ au_count' = 0
    /\ UNCHANGED au_store

AuthReturn(value) ==
    /\ au_pc' = "returned"
    /\ au_ret' = value

\* check_rate_limit up to its await of cache_manager.get
CheckCall(identifier, action, ip_address) ==
    /\ AuthEnter("check_rate_limit", identifier, action, ip_address)
    /\ IF action \notin DOMAIN rate_limits
       THEN /\ AuthReturn(Bool(TRUE))
            /\ au_key' = ""
            /\ au_fresh' = FALSE
       ELSE /\ au_pc' = "get"
            /\ au_ret' = NoAuthReturn
            /\ au_key' = rate_key(action, identifier, ip_address)
            /\ au_fresh' = (rate_key(action, identifier, ip_address) \notin DOMAIN au_store)

\* cache_manager.get answers or raises; the limit test; up to the await of
\* cache_manager.set
CheckGet(ok) ==
    /\ au_pc = "get"
    /\ au_op = "check_rate_limit"
    /\ LET current_count == Stored(au_key)
           count == IF current_count # <<>> THEN IntOf(current_count) ELSE 0
       IN  IF ~ok \/ (current_count # <<>> /\ ~IsDigits(current_count))
           THEN AuthReturn(Bool(TRUE)) /\ UNCHANGED au_count
           ELSE IF count >= rate_limits[au_action].limit
           THEN AuthReturn(Bool(FALSE)) /\ au_count' = count
           ELSE au_pc' = "set" /\ au_count' = count /\ UNCHANGED au_ret
    /\ UNCHANGED <<au_store, au_op, au_identifier, au_action, au_key, au_fresh, au_calls>>

\* cache_manager.set answers or raises; either way the call returns True
CheckSet(ok) ==
    /\ au_pc = "set"
    /\ au_store' = IF ok
                   THEN [k \in DOMAIN au_store \cup {au_key} |->
                            IF k = au_key THEN NatDigits(au_count + 1) ELSE au_store[k]]
                   ELSE au_store
    /\ AuthReturn(Bool(TRUE))
    /\ UNCHANGED <<au_op, au_identifier, au_action, au_key, au_count, au_fresh, au_calls>>

\* get_rate_limit_info up to its await of cache_manager.get
InfoCall(identifier, action, ip_address) ==
    /\ AuthEnter("get_rate_limit_info", identifier, action, ip_address)
    /\ IF action \notin DOMAIN rate_limits
       THEN /\ AuthReturn([allowed |-> TRUE, remaining |-> Inf])
            /\ au_key' = ""
            /\ au_fresh' = FALSE
       ELSE /\ au_pc' = "get"
            /\ au_ret' = NoAuthReturn
            /\ au_key' = rate_key(action, identifier, ip_address)
            /\ au_fresh' = (rate_key(action, identifier, ip_address) \notin DOMAIN au_store)

InfoGet(ok) ==
    /\ au_pc = "get"
    /\ au_op = "get_rate_limit_info"
    /\ LET current_count == Stored(au_key)
           count == IF current_count # <<>> THEN IntOf(current_count) ELSE 0
           rate_config == rate_limits[au_action]
       IN  IF ~ok \/ (current_count # <<>> /\ ~IsDigits(current_count))
           THEN AuthReturn([allowed |-> TRUE, remaining |-> Inf]) /\ UNCHANGED au_count
           ELSE /\ AuthReturn([allowed      |-> count < rate_config.limit,
                               limit        |-> rate_config.limit,
                               remaining    |-> Max(0, rate_config.limit - count),
                               reset_window |-> rate_config.window])
                /\ au_count' = count
    /\ UNCHANGED <<au_store, au_op, au_identifier, au_action, au_key, au_fresh, au_calls>>

\* a counter reaches the end of its window and the shared cache drops it
AuthExpire(key) ==
    /\ key \in DOMAIN au_store
    /\ au_store' = [k \in DOMAIN au_store \ {key} |-> au_store[k]]
    /\ UNCHANGED <<au_pc, au_op, au_identifier, au_action, au_key, au_count,
                   au_fresh, au_ret, au_calls>>

\* ---------------------------------------------------------------------
\* RateLimiter (utils/rate_limiter.py): the in-memory sliding window the
\* chat routes call before they do any work
\* ---------------------------------------------------------------------
VARIABLES rl_requests,   \* self.requests: client_ip -> list of request times
          rl_time,       \* what time.time() returns now
          rl_limit,      \* the limit every check_rate_limit call passes
          rl_window,     \* the window every call passes
          rl_ret,        \* the last call and what it returned
          rl_accepted,   \* history: the times of the calls that returned True
          rl_calls       \* calls made so far

limiterVars == <<rl_requests, rl_time, rl_limit, rl_window, rl_ret,
                 rl_accepted, rl_calls>>

\* chatbot.py keys the limiter by client_ip and by f"contact_{client_ip}"
Clients == {"ip1", "contact_ip1"}
MaxLimit == 2
MaxWindow == 2
MaxTime == 4
MaxLimiterCalls == 5

\* self.requests[client_ip] of a defaultdict(list)
requests(client_ip) ==
    IF client_ip \in DOMAIN rl_requests THEN rl_requests[client_ip] ELSE <<>>

\* the window taken closed: a request exactly `window` old is kept
InWindowClosed(reqs, current_time, window) ==
    SelectSeq(reqs, LAMBDA req_time : current_time - req_time <= window)
\* [req_time for req_time in reqs if current_time - req_time < window]
InWindow(reqs, current_time, window) ==
    SelectSeq(reqs, LAMBDA req_time : current_time - req_time < window)

LimiterParked ==
    /\ rl_requests = << >>
    /\ rl_time = 0
    /\ rl_limit = 1
    /\ rl_window = 1
    /\ rl_ret = [op |-> "", client_ip |-> "", val |-> FALSE]
    /\ rl_accepted = [c \in Clients |-> <<>>]
    /\ rl_calls = 0

check_rate_limit(client_ip, limit, window) ==
    /\ rl_calls < MaxLimiterCalls
    /\ rl_calls' = rl_calls + 1
    /\ LET current_time == rl_time
           kept == InWindow(requests(client_ip), current_time, window)
       IN  IF Len(kept) >= limit
           THEN /\ rl_requests' = [c \in DOMAIN rl_requests \cup {client_ip} |->
                                     IF c = client_ip THEN kept ELSE rl_requests[c]]
                /\ rl_ret' = [op |-> "check_rate_limit", client_ip |-> client_ip,
                              val |-> FALSE]
                /\ UNCHANGED rl_accepted
           ELSE /\ rl_requests' = [c \in DOMAIN rl_requests \cup {client_ip} |->
                                     IF c = client_ip THEN Append(kept, current_time)
                                     ELSE rl_requests[c]]
                /\ rl_ret' = [op |-> "check_rate_limit", client_ip |-> client_ip,
                              val |-> TRUE]
                /\ rl_accepted' = [rl_accepted EXCEPT
                                     ![client_ip] = Append(@, current_time)]
    /\ UNCHANGED <<rl_time, rl_limit, rl_window>>

get_request_count(client_ip, window) ==
    /\ rl_calls < MaxLimiterCalls
    /\ rl_calls' = rl_calls + 1
    /\ LET current_time == rl_time
           kept == InWindow(requests(client_ip), current_time, window)
       IN  /\ rl_requests' = [c \in DOMAIN rl_requests \cup {client_ip} |->
                                IF c = client_ip THEN kept ELSE rl_requests[c]]
           /\ rl_ret' = [op |-> "get_request_count", client_ip |-> client_ip,
                         val |-> Len(kept)]
    /\ UNCHANGED <<rl_time, rl_limit, rl_window, rl_accepted>>

\* the clock moves on between two calls
LimiterTick ==
    /\ rl_time < MaxTime
    /\ rl_time' = rl_time + 1
    /\ UNCHANGED <<rl_requests, rl_limit, rl_window, rl_ret, rl_accepted, rl_calls>>

vars == <<searchVars, rankVars, cacheVars, authVars, limiterVars>>

SearchInit ==
    /\ vstore \in Stores
    /\ SearchIdle
    /\ RankParked
    /\ CacheParked
    /\ AuthParked
    /\ LimiterParked

SearchNext ==
    \/ \E query \in Queries, top_k \in TopKs :
           HybridStart(query, top_k) /\ UNCHANGED <<rankVars, cacheVars, authVars, limiterVars>>
    \/ \E outcome \in SearchOutcomes : SemanticStep(outcome) /\ UNCHANGED <<rankVars, cacheVars, authVars, limiterVars>>
    \/ \E f \in KeywordFailures : KeywordStep(f[1], f[2]) /\ UNCHANGED <<rankVars, cacheVars, authVars, limiterVars>>
    \/ HybridAgain /\ UNCHANGED <<rankVars, cacheVars, authVars, limiterVars>>

SpecSearch == SearchInit /\ [][SearchNext]_vars

\* hybrid_search on queries of few and of many keywords; a keyword search
\* fails at its first or at its last keyword, or not at all
KeywordSpecNext ==
    \/ \E query \in KeywordQueries, top_k \in TopKs :
           HybridStart(query, top_k) /\ UNCHANGED <<rankVars, cacheVars, authVars, limiterVars>>
    \/ SemanticStep("ok") /\ UNCHANGED <<rankVars, cacheVars, authVars, limiterVars>>
    \/ \E f \in {<<0, "none">>, <<1, "embed_error">>, <<5, "store_error">>} :
           KeywordStep(f[1], f[2]) /\ UNCHANGED <<rankVars, cacheVars, authVars, limiterVars>>

SpecKeyword == SearchInit /\ [][KeywordSpecNext]_vars

RankSpecInit ==
    /\ rk_results \in SeqsUpTo(HitPool, MaxHits)
    /\ rk_query \in RankQueries
    /\ rk_arg = <<>>
    /\ rk_ranked = <<>>
    /\ rk_calls = 0
    /\ SearchParked
    /\ CacheParked
    /\ AuthParked
    /\ LimiterParked

RankNext == Rank /\ UNCHANGED <<searchVars, cacheVars, authVars, limiterVars>>

SpecRank == RankSpecInit /\ [][RankNext]_vars

CacheSpecInit ==
    /\ CacheParked
    /\ SearchParked
    /\ RankParked
    /\ AuthParked
    /\ LimiterParked

\* one task, three keys of a hot category, the clock on both sides of the
\* memory tier's maximum age
SeqNext ==
    \/ \E key \in Keys :
           GetCall("t1", key, "search_results") /\ UNCHANGED <<searchVars, rankVars, authVars, limiterVars>>
    \/ \E ok \in BOOLEAN : SharedGet("t1", ok) /\ UNCHANGED <<searchVars, rankVars, authVars, limiterVars>>
    \/ GetResume("t1") /\ UNCHANGED <<searchVars, rankVars, authVars, limiterVars>>
    \/ \E key \in Keys :
           SetCall("t1", key, Text("a"), "search_results", 0)
               /\ UNCHANGED <<searchVars, rankVars, authVars, limiterVars>>
    \/ \E ok \in BOOLEAN : SharedSet("t1", ok) /\ UNCHANGED <<searchVars, rankVars, authVars, limiterVars>>
    \/ SetResume("t1") /\ UNCHANGED <<searchVars, rankVars, authVars, limiterVars>>
    \/ cleanup_old_performance_data /\ UNCHANGED <<searchVars, rankVars, authVars, limiterVars>>
    \/ \E tp \in {1, 300, 1801} : Tick(tp) /\ UNCHANGED <<searchVars, rankVars, authVars, limiterVars>>

SpecCache == CacheSpecInit /\ [][SeqNext]_vars

\* two tasks that interleave at their await points, three keys
ConcNext ==
    \/ \E t \in Tasks, key \in Keys :
           GetCall(t, key, "search_results") /\ UNCHANGED <<searchVars, rankVars, authVars, limiterVars>>
    \/ \E t \in Tasks : SharedGet(t, TRUE) /\ UNCHANGED <<searchVars, rankVars, authVars, limiterVars>>
    \/ \E t \in Tasks : GetResume(t) /\ UNCHANGED <<searchVars, rankVars, authVars, limiterVars>>
    \/ \E t \in Tasks, key \in Keys :
           SetCall(t, key, Text("a"), "search_results", 0)
               /\ UNCHANGED <<searchVars, rankVars, authVars, limiterVars>>
    \/ \E t \in Tasks : SharedSet(t, TRUE) /\ UNCHANGED <<searchVars, rankVars, authVars, limiterVars>>
    \/ \E t \in Tasks : SetResume(t) /\ UNCHANGED <<searchVars, rankVars, authVars, limiterVars>>
    \/ cleanup_old_performance_data /\ UNCHANGED <<searchVars, rankVars, authVars, limiterVars>>
    \/ \E tp \in {1} : Tick(tp) /\ UNCHANGED <<searchVars, rankVars, authVars, limiterVars>>

SpecCacheConc == CacheSpecInit /\ [][ConcNext]_vars

\* one task and one key under a hot category and the default one; a value
\* names the category it is written under, as a str or as an object
CatCategories == {"search_results", "warm"}

ValuesOf(category) == {Text(category), [obj |-> category]}

CatNext ==
    \/ \E category \in CatCategories :
           GetCall("t1", "k1", category) /\ UNCHANGED <<searchVars, rankVars, authVars, limiterVars>>
    \/ \E ok \in BOOLEAN : SharedGet("t1", ok) /\ UNCHANGED <<searchVars, rankVars, authVars, limiterVars>>
    \/ GetResume("t1") /\ UNCHANGED <<searchVars, rankVars, authVars, limiterVars>>
    \/ \E category \in CatCategories :
           \E data \in ValuesOf(category) :
               SetCall("t1", "k1", data, category, 0)
                   /\ UNCHANGED <<searchVars, rankVars, authVars, limiterVars>>
    \/ \E ok \in BOOLEAN : SharedSet("t1", ok) /\ UNCHANGED <<searchVars, rankVars, authVars, limiterVars>>
    \/ SetResume("t1") /\ UNCHANGED <<searchVars, rankVars, authVars, limiterVars>>
    \/ cleanup_old_performance_data /\ UNCHANGED <<searchVars, rankVars, authVars, limiterVars>>
    \/ \E tp \in {1, 300} : Tick(tp) /\ UNCHANGED <<searchVars, rankVars, authVars, limiterVars>>

SpecCacheCat == CacheSpecInit /\ [][CatNext]_vars

\* one task and two keys of a hot category, the clock on both sides of the
\* cleanup's 30 minutes and 24 hours
CleanupNext ==
    \/ \E key \in {"k1", "k2"} :
           GetCall("t1", key, "search_results") /\ UNCHANGED <<searchVars, rankVars, authVars, limiterVars>>
    \/ SharedGet("t1", TRUE) /\ UNCHANGED <<searchVars, rankVars, authVars, limiterVars>>
    \/ GetResume("t1") /\ UNCHANGED <<searchVars, rankVars, authVars, limiterVars>>
    \/ \E key \in {"k1", "k2"} :
           SetCall("t1", key, Text("a"), "search_results", 0)
               /\ UNCHANGED <<searchVars, rankVars, authVars, limiterVars>>
    \/ SharedSet("t1", TRUE) /\ UNCHANGED <<searchVars, rankVars, authVars, limiterVars>>
    \/ SetResume("t1") /\ UNCHANGED <<searchVars, rankVars, authVars, limiterVars>>
    \/ cleanup_old_performance_data /\ UNCHANGED <<searchVars, rankVars, authVars, limiterVars>>
    \/ \E tp \in {1, 1801, 86400, 86401} : Tick(tp) /\ UNCHANGED <<searchVars, rankVars, authVars, limiterVars>>

SpecCleanup == CacheSpecInit /\ [][CleanupNext]_vars

\* a reader and a writer of one key of a hot category that interleave at
\* their await points; the writer sets one of two values
RaceNext ==
    \/ GetCall("t1", "k1", "search_results") /\ UNCHANGED <<searchVars, rankVars, authVars, limiterVars>>
    \/ SharedGet("t1", TRUE) /\ UNCHANGED <<searchVars, rankVars, authVars, limiterVars>>
    \/ GetResume("t1") /\ UNCHANGED <<searchVars, rankVars, authVars, limiterVars>>
    \/ \E data \in {[obj |-> "v1"], [obj |-> "v2"]} :
           SetCall("t2", "k1", data, "search_results", 0)
               /\ UNCHANGED <<searchVars, rankVars, authVars, limiterVars>>
    \/ SharedSet("t2", TRUE) /\ UNCHANGED <<searchVars, rankVars, authVars, limiterVars>>
    \/ SetResume("t2") /\ UNCHANGED <<searchVars, rankVars, authVars, limiterVars>>
    \/ Tick(1) /\ UNCHANGED <<searchVars, rankVars, authVars, limiterVars>>

SpecCacheRace == CacheSpecInit /\ [][RaceNext]_vars

\* get_adaptive_ttl over the access histories of a key: the key without a
\* history, and histories of up to one access that left the last hour by a
\* second and up to MaxRecent accesses inside it
MaxRecent == 15

TTLInit ==
    /\ now = 90000
    /\ memory_cache = <<>>
    /\ access_patterns \in {EmptyMap} \cup {("k1" :> h) : h \in ({Rep(now - 3600, old) \o Rep(now - 3599, recent) : old \in 0..1, recent \in 0..MaxRecent})}
    /\ redis = EmptyMap
    /\ task = [t \in Tasks |-> IdleTask]
    /\ last_evicted = ""
    /\ calls = 0
    /\ SearchParked
    /\ RankParked
    /\ AuthParked
    /\ LimiterParked

TTLNext ==
    \/ \E category \in DOMAIN cache_ttl \cup {"warm"} :
           SetCall("t1", "k1", Text("a"), category, 0)
               /\ UNCHANGED <<searchVars, rankVars, authVars, limiterVars>>
    \/ \E ok \in BOOLEAN : SharedSet("t1", ok) /\ UNCHANGED <<searchVars, rankVars, authVars, limiterVars>>
    \/ SetResume("t1") /\ UNCHANGED <<searchVars, rankVars, authVars, limiterVars>>

SpecTTL == TTLInit /\ [][TTLNext]_vars

AuthSpecInit ==
    /\ AuthParked
    /\ LimiterParked
    /\ SearchParked
    /\ RankParked
    /\ CacheParked

AuthNext ==
    \/ \E caller \in Callers, action \in Actions :
           CheckCall(caller.identifier, action, caller.ip_address) /\ UNCHANGED <<searchVars, rankVars, cacheVars, limiterVars>>
    \/ \E ok \in BOOLEAN : CheckGet(ok) /\ UNCHANGED <<searchVars, rankVars, cacheVars, limiterVars>>
    \/ \E ok \in BOOLEAN : CheckSet(ok) /\ UNCHANGED <<searchVars, rankVars, cacheVars, limiterVars>>
    \/ \E caller \in Callers, action \in Actions :
           InfoCall(caller.identifier, action, caller.ip_address) /\ UNCHANGED <<searchVars, rankVars, cacheVars, limiterVars>>
    \/ \E ok \in BOOLEAN : InfoGet(ok) /\ UNCHANGED <<searchVars, rankVars, cacheVars, limiterVars>>
    \/ \E key \in DOMAIN au_store : AuthExpire(key) /\ UNCHANGED <<searchVars, rankVars, cacheVars, limiterVars>>

SpecAuth == AuthSpecInit /\ [][AuthNext]_vars

LimiterSpecInit ==
    /\ rl_requests = << >>
    /\ rl_time = 0
    /\ rl_limit \in 1..MaxLimit
    /\ rl_window \in 1..MaxWindow
    /\ rl_ret = [op |-> "", client_ip |-> "", val |-> FALSE]
    /\ rl_accepted = [c \in Clients |-> <<>>]
    /\ rl_calls = 0
    /\ SearchParked
    /\ RankParked
    /\ CacheParked
    /\ AuthParked

LimiterNext ==
    \/ \E client_ip \in Clients :
           check_rate_limit(client_ip, rl_limit, rl_window) /\ UNCHANGED <<searchVars, rankVars, cacheVars, authVars>>
    \/ \E client_ip \in Clients :
           get_request_count(client_ip, rl_window) /\ UNCHANGED <<searchVars, rankVars, cacheVars, authVars>>
    \/ LimiterTick /\ UNCHANGED <<searchVars, rankVars, cacheVars, authVars>>

SpecLimiter == LimiterSpecInit /\ [][LimiterNext]_vars

(***************************************************************************)
(* Properties of hybrid_search                                             *)
(***************************************************************************)

\* C1: whatever the query and whatever the Embedding Provider and the Vector
\* Store do (hits, no hit above the floor, errors), a completed hybrid_search
\* has returned (not raised) a string that is not empty.
C1_RetrieveNonEmpty ==
    hs_pc = "done" => (~hs_out.raised /\ Len(hs_out.val) > 0)

\* a call in which a sub-search failed, no hit was found, and the fallback
\* biography was returned
C1_Witness ==
    /\ hs_pc = "done"
    /\ hs_failed # {}
    /\ hs_all = <<>>
    /\ hs_out = Return(get_fallback_knowledge)

\* what the sub-searches of the call produce when the failed ones count for
\* nothing and the others run to completion
RECURSIVE HitsOfOthers(_)
HitsOfOthers(i) ==
    IF i > Len(hs_indexes) THEN <<>>
    ELSE (IF <<i, "semantic">> \in hs_failed THEN <<>>
          ELSE semantic_search_try(hs_query, hs_indexes[i], hs_top_k \div 2, "ok").val)
         \o (IF <<i, "keyword">> \in hs_failed THEN <<>>
             ELSE keyword_search_try(hs_query, hs_indexes[i], hs_top_k \div 2,
                                     0, "none").val)
         \o HitsOfOthers(i + 1)

\* C2: when sub-searches of a call fail, hybrid_search raises nothing, the
\* failed sub-searches contribute no hit, and the hits of all the other
\* sub-searches are the ones that are ranked, formatted and returned.
C2_FailureIsolated ==
    hs_pc = "done" =>
        /\ ~hs_out.raised
        /\ hs_all = HitsOfOthers(1)
        /\ hs_out.val = BuildContext(fusion_rank(HitsOfOthers(1), hs_query), hs_top_k)

\* a call in which a sub-search failed and hits of other sub-searches were
\* returned
C2_Witness ==
    /\ hs_pc = "done"
    /\ hs_failed # {}
    /\ hs_all # <<>>
    /\ hs_out.val # get_fallback_knowledge

\* C3: a second hybrid_search with the same query returns the output of the
\* first and is served from the cache, without a Vector Store query.
C3_RepeatServedFromCache ==
    (hs_pc = "done" /\ hs_prev.set /\ hs_prev.query = hs_query) =>
        (hs_calls = 0 /\ hs_out = hs_prev.out)

(***************************************************************************)
(* Properties of fusion_rank                                               *)
(***************************************************************************)

\* the position in the list given to fusion_rank at which the key of h
\* first appears
FirstKeyPos(h) ==
    CHOOSE i \in 1..Len(rk_arg) :
        /\ DedupKey(rk_arg[i], 100) = DedupKey(h, 100)
        /\ \A j \in 1..(i - 1) : DedupKey(rk_arg[j], 100) # DedupKey(h, 100)

\* C4: the output of fusion_rank is ordered by final score descending, and
\* hits of equal final score are in the order in which their keys first
\* appeared in the input.
C4_SortedStable ==
    rk_calls > 0 =>
        \A i, j \in 1..Len(rk_ranked) :
            i < j =>
                \/ rk_ranked[i].score > rk_ranked[j].score
                \/ /\ rk_ranked[i].score = rk_ranked[j].score
                   /\ FirstKeyPos(rk_ranked[i]) < FirstKeyPos(rk_ranked[j])

\* a ranked list that holds two hits of equal final score and two hits of
\* different final score
C4_Witness ==
    /\ rk_calls > 0
    /\ \E i, j \in 1..Len(rk_ranked) :
           i < j /\ rk_ranked[i].score = rk_ranked[j].score
    /\ \E i, j \in 1..Len(rk_ranked) :
           i < j /\ rk_ranked[i].score > rk_ranked[j].score

\* (source, content[:100])
IdentityPair(h) == <<h.source, Take(h.content, 100)>>

\* C5: no two entries of the output of fusion_rank have the same pair
\* (source, first 100 characters of content).
C5_UniquePairs ==
    rk_calls > 0 =>
        \A i, j \in 1..Len(rk_ranked) :
            i # j => IdentityPair(rk_ranked[i]) # IdentityPair(rk_ranked[j])

\* an input with two hits of the same pair and different content, of which
\* the output keeps one
C5_Witness ==
    /\ rk_calls > 0
    /\ \E i, j \in 1..Len(rk_arg) :
           /\ i < j
           /\ IdentityPair(rk_arg[i]) = IdentityPair(rk_arg[j])
           /\ rk_arg[i].content # rk_arg[j].content
    /\ Len(rk_ranked) < Len(rk_arg)

\* the input hits of the last call that carry the pair of hit i
SamePair(i) == {k \in 1..Len(rk_arg) : IdentityPair(rk_arg[k]) = IdentityPair(rk_arg[i])}

\* C20: for every pair (source, first 100 characters of content) among the
\* input hits, the output holds a hit with that pair, which is an input hit of
\* the greatest pre-boost score among the input hits with that pair; a hit
\* is dropped only when another input hit has the identical pair.
C20_KeepsBestOfEachPair ==
    rk_calls > 0 =>
        /\ \A i \in 1..Len(rk_arg) :
               \E j \in 1..Len(rk_ranked), k \in SamePair(i) :
                   /\ \A other \in SamePair(i) : rk_arg[other].score <= rk_arg[k].score
                   /\ rk_ranked[j] =
                          [rk_arg[k] EXCEPT !.score = FinalScore(rk_arg[k], rk_query)]
        /\ Len(rk_ranked) = Cardinality({IdentityPair(rk_arg[i]) : i \in 1..Len(rk_arg)})

\* the query holds an intent term of the partition of hit h
MatchesIntent(h, query) ==
    LET has(word) == Contains(word, lower(query))
    IN  \/ /\ h.index_type = PROJECTS
            /\ has(<<"p","r","o","j","e","c","t">>)
        \/ /\ h.index_type = PROFESSIONAL
            /\ \/ has(<<"r","e","s","u","m","e">>)
               \/ has(<<"e","x","p","e","r","i","e","n","c","e">>)
               \/ has(<<"s","k","i","l","l">>)
        \/ /\ h.index_type = PERSONAL
            /\ \/ has(<<"a","b","o","u","t">>)
               \/ has(<<"c","o","n","t","a","c","t">>)
               \/ has(<<"p","e","r","s","o","n","a","l">>)

\* what a call adds to the score of h besides the intent boost
OtherBoosts(h) ==
    (IF "keyword_match" \in DOMAIN h THEN 50 ELSE 0) + (IF Len(h.content) > 500 THEN 20 ELSE 0)

\* C21: every hit of the output is an input hit whose score grew by the
\* intent boost of 0.1 exactly when the query holds an intent term of the
\* hit's own partition ("project"; "resume", "experience", "skill"; "about",
\* "contact", "personal"), and by that boost once.
C21_IntentBoostIffOwnTerm ==
    rk_calls > 0 =>
        \A j \in 1..Len(rk_ranked) :
            \E k \in 1..Len(rk_arg) :
                rk_ranked[j] =
                    [rk_arg[k] EXCEPT
                        !.score = rk_arg[k].score + OtherBoosts(rk_arg[k])
                                  + (IF MatchesIntent(rk_arg[k], rk_query) THEN 100 ELSE 0)]

\* C22 as stated: a hit whose partition matches no intent term of the query
\* and whose content has at most 500 characters leaves rank with the score it
\* entered with.
C22_AsStated ==
    rk_calls > 0 =>
        \A j \in 1..Len(rk_ranked) :
            (~MatchesIntent(rk_ranked[j], rk_query) /\ Len(rk_ranked[j].content) <= 500) =>
                \E k \in 1..Len(rk_arg) : rk_ranked[j] = rk_arg[k]

\* C22: a hit whose partition matches no intent term of the query, that
\* carries no keyword_match and whose content has at most 500 characters
\* leaves rank with the score it entered with.
C22_OnlyListedBoosts ==
    rk_calls > 0 =>
        \A j \in 1..Len(rk_ranked) :
            (/\ ~MatchesIntent(rk_ranked[j], rk_query)
             /\ "keyword_match" \notin DOMAIN rk_ranked[j]
             /\ Len(rk_ranked[j].content) <= 500) =>
                \E k \in 1..Len(rk_arg) : rk_ranked[j] = rk_arg[k]

\* a short PERSONAL hit without keyword_match ranked for a query of
\* professional intent, beside a hit that was boosted
C22_Witness ==
    /\ rk_calls > 0
    /\ rk_query = QSkill
    /\ \E j \in 1..Len(rk_ranked) :
           /\ rk_ranked[j].index_type = PERSONAL
           /\ "keyword_match" \notin DOMAIN rk_ranked[j]
           /\ Len(rk_ranked[j].content) <= 500
           /\ \E k \in 1..Len(rk_arg) : rk_ranked[j] = rk_arg[k]
    /\ \E j \in 1..Len(rk_ranked), k \in 1..Len(rk_arg) :
           /\ rk_ranked[j].index_type = PROFESSIONAL
           /\ rk_ranked[j] = [rk_arg[k] EXCEPT !.score = rk_arg[k].score + 100]

\* C23: fusion_rank leaves the hits passed to it as they were, and a second
\* call on the same list returns the hits with the scores of the first call.
C23_RankIsPure ==
    [][rk_calls' = rk_calls + 1 =>
          /\ rk_results' = rk_results
          /\ rk_calls = 1 => rk_ranked' = rk_ranked]_vars

(***************************************************************************)
(* Properties of the adaptive cache                                        *)
(***************************************************************************)
\* the task that enters an operation in the step at hand
Calls(t) == calls' = calls + 1 /\ task'[t].n = calls'

\* the memory items of the least timestamp
Oldest(mc) == {i \in 1..Len(mc) : \A j \in 1..Len(mc) : mc[i].timestamp <= mc[j].timestamp}

\* C6: a step that writes a key the memory tier does not hold while the tier
\* holds max_memory_cache_size items removes exactly one item, one of the
\* oldest timestamp, and keeps every other item; and a smart_cache_get of a
\* key that the memory tier does not hold, an evicted key among them, sends
\* the request for that key to the shared tier.
C6_EvictsOldest ==
    [][/\ \A k \in MemKeys(memory_cache') \ MemKeys(memory_cache) :
              Len(memory_cache) = max_memory_cache_size =>
                  \E i \in Oldest(memory_cache) :
                      /\ MemKeys(memory_cache') =
                             (MemKeys(memory_cache) \ {memory_cache[i].key}) \cup {k}
                      /\ \A j \in 1..Len(memory_cache) :
                             j # i => \E m \in 1..Len(memory_cache') :
                                          memory_cache'[m] = memory_cache[j]
                      /\ Len(memory_cache') = max_memory_cache_size
                      /\ last_evicted' = memory_cache[i].key
       /\ \A t \in Tasks :
              (/\ Calls(t)
               /\ task'[t].op = "get"
               /\ MemoryKey(task'[t].key) \notin MemKeys(memory_cache)) =>
                  /\ task'[t].pc = "get_sent"
                  /\ task'[t].req.cache_key = CacheKey(task'[t].category, task'[t].key)
       /\ (last_evicted' # "" => last_evicted' \notin MemKeys(memory_cache'))]_vars

\* a read of the evicted key has gone to the shared tier while the memory
\* tier is full with the other keys
C6_Witness ==
    /\ Len(memory_cache) = max_memory_cache_size
    /\ last_evicted # ""
    /\ task["t1"].op = "get"
    /\ task["t1"].pc = "get_sent"
    /\ MemoryKey(task["t1"].key) = last_evicted
    /\ task["t1"].req.cache_key = CacheKey("search_results", task["t1"].key)

\* C7: in every state reached by interleaved smart_cache_get, smart_cache_set
\* and cleanup_old_performance_data the memory tier holds at most
\* max_memory_cache_size items, each key once.
C7_FastTierBounded ==
    /\ Len(memory_cache) <= max_memory_cache_size
    /\ Cardinality(MemKeys(memory_cache)) = Len(memory_cache)

\* a task is suspended at its await while a task that entered later has
\* returned, the tier is full and a write has evicted an item
C7_Witness ==
    /\ Len(memory_cache) = max_memory_cache_size
    /\ last_evicted # ""
    /\ \E t, u \in Tasks :
           /\ task[t].pc \in {"get_replied", "set_replied"}
           /\ ~task[t].reply.raised
           /\ task[u].pc = "returned"
           /\ task[u].n > task[t].n

\* the number of accesses of key recorded in the last hour
AccessesLastHour(key) ==
    IF key \in DOMAIN access_patterns
    THEN Cardinality({i \in 1..Len(access_patterns[key]) :
                         now - access_patterns[key][i] < 3600})
    ELSE 0

\* the TTL of a category before adaptation
CategoryBase(category) ==
    IF category \in DOMAIN cache_ttl THEN cache_ttl[category] ELSE 7200

\* C8 as stated: smart_cache_set without custom TTL asks the shared tier for
\* max(base/2, 1800) when n > 10, base when 3 <= n <= 10 and
\* min(2*base, 28800) when n < 3.
C8_AsStated ==
    task["t1"].pc = "set_sent" =>
        LET n == AccessesLastHour(task["t1"].key)
            base == CategoryBase(task["t1"].category)
        IN  task["t1"].req.ttl = IF n > 10 THEN Max(base \div 2, 1800)
                                 ELSE IF n >= 3 THEN base
                                 ELSE Min(2 * base, 28800)

\* C8 amended: max(base/2, 1800) when n > 10, base when 4 <= n <= 10 and
\* min(2*base, 28800) when n <= 3; n = 15 and base = 7200 give a TTL between
\* 1800 and 3600.
C8_AdaptiveTTL ==
    task["t1"].pc = "set_sent" =>
        LET n == AccessesLastHour(task["t1"].key)
            base == CategoryBase(task["t1"].category)
            ttl == task["t1"].req.ttl
        IN  /\ n > 10 => ttl = Max(base \div 2, 1800)
            /\ (4 <= n /\ n <= 10) => ttl = base
            /\ n <= 3 => ttl = Min(2 * base, 28800)
            /\ (n = 15 /\ base = 7200) => (1800 <= ttl /\ ttl <= 3600)

\* a write of a key with exactly three accesses in the last hour, whose TTL
\* is the doubled base
C8_Witness ==
    /\ task["t1"].pc = "set_sent"
    /\ AccessesLastHour(task["t1"].key) = 3
    /\ task["t1"].category = "explanation_warm"
    /\ task["t1"].req.ttl = 14400

\* C9: a smart_cache_get that returns from the memory tier returns the data of
\* an item younger than 300 seconds; a smart_cache_get of a key whose item is
\* 300 seconds old or older removes the item and goes to the shared tier.
C9_NoStaleFastHit ==
    [][\A t \in Tasks :
           (Calls(t) /\ task'[t].op = "get") =>
               LET memory_key == MemoryKey(task'[t].key)
                   held == memory_key \in MemKeys(memory_cache)
                   age == now - MemGet(memory_cache, memory_key).timestamp
               IN  /\ task'[t].via = "fast" =>
                          /\ held
                          /\ age < 300
                          /\ task'[t].ret = Return(MemGet(memory_cache, memory_key).data)
                   /\ (held /\ age >= 300) =>
                          /\ task'[t].pc = "get_sent"
                          /\ task'[t].via # "fast"
                          /\ memory_key \notin MemKeys(memory_cache')]_vars

\* a read at 300 seconds of an item written at 0 has removed the item and
\* gone to the shared tier
C9_Witness ==
    /\ now = 300
    /\ task["t1"].op = "get"
    /\ task["t1"].pc = "get_sent"
    /\ task["t1"].via = "expired"
    /\ MemoryKey(task["t1"].key) \notin MemKeys(memory_cache)

\* C10: an operation whose shared-tier call failed returns, smart_cache_get
\* with None, and gives the caller no exception.
C10_SharedFailureContained ==
    \A t \in Tasks :
        /\ (task[t].pc \in {"get_replied", "set_replied"} /\ task[t].reply.raised) =>
               task[t].failed
        /\ (task[t].pc = "returned" /\ task[t].failed) =>
               /\ ~task[t].ret.raised
               /\ task[t].op = "get" => task[t].ret.val = None

\* a smart_cache_get whose shared-tier call failed has returned
C10_Witness ==
    /\ task["t1"].pc = "returned"
    /\ task["t1"].op = "get"
    /\ task["t1"].failed
    /\ task["t1"].ret = Return(None)

\* the category a returned value was written under: the value itself, the
\* record smart_cache_set wraps around an object, or the JSON text of it
OwnerCategory(v) ==
    IF "str" \in DOMAIN v THEN v.str
    ELSE IF "obj" \in DOMAIN v THEN v.obj
    ELSE IF "json" \in DOMAIN v THEN v.json.category
    ELSE v.category

\* C11: a smart_cache_get(key, category B) that returns a value returns one
\* that was written under category B, never one written under another
\* category with the same key.
C11_NoCategoryCollision ==
    \A t \in Tasks :
        (task[t].pc = "returned" /\ task[t].op = "get" /\ task[t].ret.val # None) =>
            OwnerCategory(task[t].ret.val) = task[t].category

\* the value of the last smart_cache_set of (key, category) that the shared
\* tier accepted
StoredValue(key, category) ==
    LET payload == redis[CacheKey(category, key)].val
    IN  IF "json" \in DOMAIN payload THEN payload.json.data ELSE payload

\* C12: while the shared tier holds the entry of a completed
\* smart_cache_set(key, v, category), a smart_cache_get(key, category) whose
\* shared-tier call did not fail returns exactly v.
C12_GetReturnsWhatWasSet ==
    \A t \in Tasks :
        (/\ task[t].pc = "returned"
         /\ task[t].op = "get"
         /\ ~task[t].failed
         /\ CacheKey(task[t].category, task[t].key) \in DOMAIN redis) =>
            task[t].ret = Return(StoredValue(task[t].key, task[t].category))

\* the promotion policy, on the table as smart_cache_set finds it
PolicySaysMemory(key, category) ==
    \/ category \in {"explanation_hot", "search_results"}
    \/ /\ key \in DOMAIN access_patterns
       /\ Cardinality({i \in 1..Len(access_patterns[key]) :
                          now - access_patterns[key][i] < 1800}) >= 2

\* the step in which smart_cache_set returns has put data into the memory tier
WroteMemory(t) ==
    /\ task'[t].via = "stored_both"
    /\ MemoryKey(task[t].key) \in MemKeys(memory_cache')
    /\ MemGet(memory_cache', MemoryKey(task[t].key)) =
           [key |-> MemoryKey(task[t].key), data |-> task[t].data, timestamp |-> now]

LeftMemory(t) == task'[t].via # "stored_both" /\ memory_cache' = memory_cache

FirstMatches == Take(vstore[hs_indexes[1]], hs_top_k \div 2)

\* C14: a semantic_search that met no error returns, in the store's order,
\* exactly the matches whose score is greater than 0.75, each with its raw
\* score: a match of 0.75 is left out, a match of 0.751 is returned.
C14_SemanticFloor ==
    (hs_pc = "keyword" /\ hs_i = 1 /\ <<1, "semantic">> \notin hs_failed) =>
        LET kept == SelectSeq(FirstMatches, LAMBDA match : match.score > 750)
        IN  /\ Len(hs_all) = Len(kept)
            /\ \A j \in 1..Len(kept) :
                   /\ hs_all[j].score = kept[j].score
                   /\ hs_all[j].metadata = kept[j].metadata

\* the store answered with a match of 0.751 and a match of 0.75, and the
\* search returned the first alone
C14_Witness ==
    /\ hs_pc = "keyword"
    /\ hs_i = 1
    /\ hs_failed = {}
    /\ \E i \in 1..Len(FirstMatches) : FirstMatches[i].score = 750
    /\ Len(hs_all) = 1
    /\ hs_all[1].score = 751

\* the partitions with a keyword that is a substring of the lower-cased query
PartitionsWithKeyword(query) ==
    {p \in Range(IndexTypes) :
        LET keywords == IF p = PROJECTS THEN project_keywords
                        ELSE IF p = PROFESSIONAL THEN professional_keywords
                        ELSE personal_keywords
        IN  \E i \in 1..Len(keywords) : Contains(keywords[i], lower(query))}

\* C15: classify_query returns exactly the partitions that have a keyword in
\* the lower-cased query, each once, and all three partitions when none has;
\* the result is never empty.
C15_ClassifyByKeyword ==
    hs_pc # "idle" =>
        /\ hs_indexes # <<>>
        /\ Cardinality(Range(hs_indexes)) = Len(hs_indexes)
        /\ Range(hs_indexes) = IF PartitionsWithKeyword(hs_query) = {}
                               THEN {PROJECTS, PROFESSIONAL, PERSONAL}
                               ELSE PartitionsWithKeyword(hs_query)

\* a query with keywords of two of the three partitions
C15_Witness ==
    /\ hs_pc # "idle"
    /\ Cardinality(PartitionsWithKeyword(hs_query)) = 2
    /\ Range(hs_indexes) = PartitionsWithKeyword(hs_query)

\* C16: for "What is Isaac's email?" classify_query selects PERSONAL and no
\* other partition.
C16_EmailIsPersonal ==
    (hs_pc # "idle" /\ hs_query = QEmail) => Range(hs_indexes) = {PERSONAL}

(***************************************************************************)
(* Properties of cleanup_old_performance_data                              *)
(***************************************************************************)
\* no timestamp older than 24 hours and no empty history in the table ap, no
\* item older than 30 minutes in the memory tier mc
CleanedUp(ap, mc) ==
    /\ \A k \in DOMAIN ap :
           /\ ap[k] # <<>>
           /\ \A i \in 1..Len(ap[k]) : now - ap[k][i] <= 86400
    /\ \A i \in 1..Len(mc) : now - mc[i].timestamp <= 1800

\* C17: from every state the cache can be in, cleanup_old_performance_data
\* leaves an access-pattern table without a timestamp older than 24 hours and
\* without an empty history, and a memory tier without an item older than 30
\* minutes.
C17_CleanupPostcondition ==
    CleanedUp(CleanedPatterns(access_patterns), CleanedMemory(memory_cache))

\* more than 24 hours after a read served by the memory tier, which recorded
\* an access, the cleanup has emptied the table and the memory tier
C17_Witness ==
    /\ now = 86401
    /\ task["t1"].pc = "returned"
    /\ task["t1"].via = "fast"
    /\ access_patterns = EmptyMap
    /\ memory_cache = <<>>
    /\ CleanedUp(access_patterns, memory_cache)

\* C26: every smart_cache_get(key) records one access timestamp for key,
\* whichever tier serves the read: a get that returns at once has appended
\* the time of the call to the key's list, and when a get returns after its
\* shared-tier read the table holds a timestamp for key.
C26_EveryGetRecorded ==
    [][\A t \in Tasks :
           (task'[t].pc = "returned" /\ task'[t].op = "get"
                /\ (Calls(t) \/ task[t].pc = "get_replied")) =>
               LET key == task'[t].key
               IN  /\ key \in DOMAIN access_patterns'
                   /\ access_patterns'[key] # <<>>
                   /\ Calls(t) =>
                          /\ key \in DOMAIN access_patterns =>
                                 access_patterns'[key] = Append(access_patterns[key], now)
                          /\ key \notin DOMAIN access_patterns =>
                                 access_patterns'[key] = <<now>>]_vars

\* C28: a smart_cache_set that writes a key the memory tier already holds
\* replaces the key's value, resets its timestamp and removes no other
\* entry, also when the tier is at capacity; a write removes an entry only
\* when its key is new and the tier is at capacity.
C28_ResetKeepsOthers ==
    [][\A t \in Tasks :
           (task[t].pc = "set_replied" /\ task'[t].via = "stored_both") =>
               LET memory_key == MemoryKey(task[t].key)
               IN  /\ memory_key \in MemKeys(memory_cache) =>
                          /\ MemKeys(memory_cache') = MemKeys(memory_cache)
                          /\ MemGet(memory_cache', memory_key) =
                                 [key |-> memory_key, data |-> task[t].data, timestamp |-> now]
                          /\ \A i \in 1..Len(memory_cache) :
                                 memory_cache[i].key # memory_key =>
                                     \E j \in 1..Len(memory_cache') :
                                         memory_cache'[j] = memory_cache[i]
                   /\ MemKeys(memory_cache) \ MemKeys(memory_cache') # {} =>
                          /\ memory_key \notin MemKeys(memory_cache)
                          /\ Len(memory_cache) >= max_memory_cache_size]_vars

\* C29: get_adaptive_ttl (run when a smart_cache_set without custom_ttl is
\* entered) and should_memory_cache (run when its shared-tier write has
\* returned) leave the access-pattern table as it was: the same keys, the
\* same lists.
C29_PolicyReadsOnly ==
    [][\A t \in Tasks :
           ((Calls(t) /\ task'[t].op = "set")
                \/ (task[t].pc = "set_replied" /\ task'[t].pc = "returned")) =>
               access_patterns' = access_patterns]_vars

\* the value a memory item or a shared-tier payload carries
CarriedValue(v) == IF "json" \in DOMAIN v THEN v.json.data ELSE v

\* C30: when the reader and the writer of a key have both completed, the
\* memory tier does not hold an older value than the one of the latest
\* completed smart_cache_set, which the shared tier holds.
C30_NoStaleAfterRace ==
    (/\ \A t \in Tasks : task[t].pc \in {"idle", "returned"}
     /\ MemoryKey("k1") \in MemKeys(memory_cache)
     /\ CacheKey("search_results", "k1") \in DOMAIN redis) =>
        CarriedValue(MemGet(memory_cache, MemoryKey("k1")).data)
            = CarriedValue(redis[CacheKey("search_results", "k1")].val)

(***************************************************************************)
(* Properties of the formatted context                                     *)
(***************************************************************************)
PartitionLabel(index_type) ==
    IF index_type = "isaac-projects" THEN <<"P","R","O","J","E","C","T"," ","I","N","F","O">>
    ELSE IF index_type = "isaac-professional"
         THEN <<"P","R","O","F","E","S","S","I","O","N","A","L"," ","I","N","F","O">>
    ELSE <<"P","E","R","S","O","N","A","L"," ","I","N","F","O">>

Digit(d) == SubSeq(<<"0","1","2","3","4","5","6","7","8","9">>, d + 1, d + 1)

\* a score below 10 with three decimals
ThreeDecimals(m) ==
    Digit(m \div 1000) \o <<".">> \o Digit((m \div 100) % 10)
    \o Digit((m \div 10) % 10) \o Digit(m % 10)

\* '[<label>] From <source> (relevance: <score>):', a line break, the content
Rendered(hit) ==
    <<"[">> \o PartitionLabel(hit.index_type) \o <<"]">>
    \o <<" ","F","r","o","m"," ">> \o hit.source
    \o <<" ","(","r","e","l","e","v","a","n","c","e",":"," ">>
    \o ThreeDecimals(hit.score) \o <<")",":">> \o <<"\n">> \o hit.content

\* the first n hits rendered, a blank line between two of them
RECURSIVE RenderedFirst(_, _)
RenderedFirst(ranked, n) ==
    IF n = 0 THEN <<>>
    ELSE IF n = 1 THEN Rendered(ranked[1])
    ELSE RenderedFirst(ranked, n - 1) \o <<"\n", "\n">> \o Rendered(ranked[n])

\* C18: when the ranked list is not empty, the context hybrid_search returns
\* is the rendering of its first min(top_k, length) hits in ranked order, a
\* blank line between entries.
C18_ContextIsTopK ==
    hs_pc = "done" =>
        LET ranked == fusion_rank(hs_all, hs_query)
        IN  ranked # <<>> =>
                hs_out = Return(RenderedFirst(ranked, Min(hs_top_k, Len(ranked))))

\* a call whose ranked list is longer than top_k returned its first two hits
C18_Witness ==
    /\ hs_pc = "done"
    /\ hs_top_k = 2
    /\ Len(fusion_rank(hs_all, hs_query)) > 2
    /\ hs_out.val = Rendered(fusion_rank(hs_all, hs_query)[1]) \o <<"\n", "\n">>
                        \o Rendered(fusion_rank(hs_all, hs_query)[2])

\* C24: every hit handed to fusion_rank has non-empty content, whatever the
\* Vector Store answered.
C24_ContentNeverEmpty ==
    \A i \in 1..Len(hs_all) : hs_all[i].content # <<>>

\* word is a maximal run of \w characters of the lower-cased query
IsWordOf(word, query) ==
    \E i \in 1..Len(query) :
        LET j == i + Len(word) - 1
        IN  /\ j <= Len(query)
            /\ SubSeq(lower(query), i, j) = word
            /\ \A p \in i..j : IsWordChar(query[p])
            /\ i = 1 \/ ~IsWordChar(query[i - 1])
            /\ j = Len(query) \/ ~IsWordChar(query[j + 1])

\* C25: a keyword_search issues Vector Store queries for at most 5 keywords,
\* each a word of the query longer than 2 characters that is no stop word;
\* every hit it returns holds its matched keyword as a case-insensitive
\* substring of its content and carries the raw similarity of a match of the
\* searched partition plus 0.1.
C25_KeywordSearch ==
    [][(hs_pc = "keyword" /\ hs_pc' # "keyword") =>
          LET keywords == extract_keywords(hs_query)
              matches == vstore[hs_indexes[hs_i]]
              returned == SubSeq(hs_all', Len(hs_all) + 1, Len(hs_all'))
          IN  /\ hs_calls' - hs_calls <= 5
              /\ Len(keywords) <= 5
              /\ \A k \in 1..Len(keywords) :
                     /\ Len(keywords[k]) > 2
                     /\ keywords[k] \notin Range(stop_words)
                     /\ IsWordOf(keywords[k], hs_query)
              /\ \A i \in 1..Len(returned) :
                     /\ returned[i].keyword_match \in Range(keywords)
                     /\ Contains(lower(returned[i].keyword_match), lower(returned[i].content))
                     /\ \E m \in 1..Len(matches) :
                            /\ returned[i].score = matches[m].score + 100
                            /\ returned[i].metadata = matches[m].metadata]_vars

\* a query of more than five meaningful words whose keyword search returned
\* a hit that matches its keyword only when case is ignored
C25_Witness ==
    /\ hs_pc \in {"semantic", "done"}
    /\ Len(SelectSeq(FindWords(lower(hs_query), 1, <<>>, <<>>), IsKeyword)) > 5
    /\ \E i \in 1..Len(hs_all) :
           /\ "keyword_match" \in DOMAIN hs_all[i]
           /\ ~Contains(hs_all[i].keyword_match, hs_all[i].content)

(***************************************************************************)
(* Properties of the AuthService rate limits                               *)
(***************************************************************************)

\* C19: for every identifier and every configured action, whatever the cache
\* backend does, check_rate_limit returns True for the first request of an
\* identifier that has no counter yet, and get_rate_limit_info returns a
\* record holding both a 'limit' and a 'remaining' field.
C19_FirstAllowedAndInfoComplete ==
    (au_pc = "returned" /\ au_action \in DOMAIN rate_limits) =>
        /\ (au_op = "check_rate_limit" /\ au_fresh) => au_ret = Bool(TRUE)
        /\ au_op = "get_rate_limit_info" =>
               {"limit", "remaining"} \subseteq DOMAIN au_ret

(***************************************************************************)
(* Properties of the RateLimiter                                           *)
(***************************************************************************)

\* the accepted calls of a client whose time t satisfies lo <= t < hi
AcceptedIn(client_ip, lo, hi) ==
    Cardinality({i \in 1..Len(rl_accepted[client_ip]) :
                     /\ lo <= rl_accepted[client_ip][i]
                     /\ rl_accepted[client_ip][i] < hi})

\* C27: with one limit and one window for every call, no client has more
\* than `limit` accepted check_rate_limit calls in any interval [s, s + window)
\* (an interval of length window, its far end excluded: two calls exactly
\* `window` apart do not fall in one window); a check_rate_limit call returns
\* False exactly when `limit` accepted calls of that client are less than
\* `window` old, a rejected call adds no request time, and a call for one
\* client leaves the record and the history of every other client as it was.
C27_SlidingWindow ==
    [][rl_calls' = rl_calls + 1 =>
        /\ \A d \in Clients, s \in (0 - MaxWindow)..MaxTime :
               AcceptedIn(d, s, s + rl_window)' <= rl_limit
        /\ \A c \in Clients : rl_ret'.client_ip = c =>
            /\ rl_ret'.op = "check_rate_limit" =>
                   /\ rl_ret'.val = FALSE <=>
                          AcceptedIn(c, rl_time - rl_window + 1, rl_time + 1) = rl_limit
                   /\ rl_ret'.val = FALSE =>
                          /\ rl_accepted' = rl_accepted
                          /\ Len(requests(c)') <= Len(requests(c))
                          /\ \A i \in 1..Len(requests(c)') :
                                 \E j \in 1..Len(requests(c)) :
                                     requests(c)[j] = requests(c)'[i]
                   /\ rl_ret'.val = TRUE =>
                          AcceptedIn(c, rl_time, rl_time + 1)'
                              = AcceptedIn(c, rl_time, rl_time + 1) + 1
            /\ \A d \in Clients \ {c} :
                   /\ requests(d)' = requests(d)
                   /\ rl_accepted'[d] = rl_accepted[d]
    ]_vars

\* a client was accepted up to the limit, rejected, accepted again once the
\* window had moved on and is now rejected again, while the other client was
\* accepted in between
C27_Witness ==
    \E c \in Clients :
        /\ rl_ret.op = "check_rate_limit"
        /\ rl_ret.client_ip = c
        /\ rl_ret.val = FALSE
        /\ Len(rl_accepted[c]) > rl_limit
        /\ \E d \in Clients \ {c} : rl_accepted[d] # <<>>

====
